---- MODULE Spec2Model ----
(***************************************************************************)
(* Model of the phantom-coerce derive macro (phantom-coerce-derive/src/     *)
(* lib.rs): the attribute parser, the alternation expander, the type-hole   *)
(* resolver, the per-entity pipeline impl_coerce and the impls it emits.    *)
(*                                                                         *)
(* A Rust string is a sequence of one-character strings; identifiers are    *)
(* single letters, so "T<A, _>" is <<"T","<","A",","," ","_",">">>.         *)
(***************************************************************************)
EXTENDS Integers, Sequences, FiniteSets, TLC

\* ------------------------------------------------------------------------
\* str primitives of the Rust standard library, as the code uses them
\* ------------------------------------------------------------------------

IsWs(c) == c = " "

RECURSIVE TrimStart(_)
TrimStart(s) ==
    IF s = <<>> THEN <<>>
    ELSE IF IsWs(Head(s)) THEN TrimStart(Tail(s)) ELSE s

RECURSIVE TrimEnd(_)
TrimEnd(s) ==
    IF s = <<>> THEN <<>>
    ELSE IF IsWs(s[Len(s)]) THEN TrimEnd(SubSeq(s, 1, Len(s) - 1)) ELSE s

\* str::trim
Trim(s) == TrimEnd(TrimStart(s))

\* str::contains(char)
ContainsCh(s, c) == \E k \in 1..Len(s) : s[k] = c

\* str::contains(&str)
ContainsStr(s, sub) ==
    \E k \in 1..(Len(s) - Len(sub) + 1) : SubSeq(s, k, k + Len(sub) - 1) = sub

\* str::find(char): 1-based index of the first occurrence, 0 for None
FindCh(s, c) ==
    IF ContainsCh(s, c)
    THEN CHOOSE k \in 1..Len(s) : s[k] = c /\ \A j \in 1..(k - 1) : s[j] # c
    ELSE 0

\* str::rfind(char): 1-based index of the last occurrence, 0 for None
RFindCh(s, c) ==
    IF ContainsCh(s, c)
    THEN CHOOSE k \in 1..Len(s) : s[k] = c /\ \A j \in (k + 1)..Len(s) : s[j] # c
    ELSE 0

\* str::split(char): every piece, empty ones included
RECURSIVE SplitCh(_, _)
SplitCh(s, c) ==
    LET k == FindCh(s, c)
    IN  IF k = 0 THEN <<s>>
        ELSE <<SubSeq(s, 1, k - 1)>> \o SplitCh(SubSeq(s, k + 1, Len(s)), c)

\* concatenation of a sequence of strings
RECURSIVE Concat(_)
Concat(ss) == IF ss = <<>> THEN <<>> ELSE Head(ss) \o Concat(Tail(ss))

\* ------------------------------------------------------------------------
\* Alternation expander
\* ------------------------------------------------------------------------

\* The char loop of split_by_pipe_respecting_brackets: st is the loop state
\* [result, current, depth] after the first k-1 chars.
RECURSIVE SplitLoop(_, _, _)
SplitLoop(s, k, st) ==
    \* st # st is never true: it has the state computed at every step, as
    \* the loop's is, instead of when the loop ends
    IF k > Len(s) \/ st # st THEN st
    ELSE LET ch == s[k]
         IN  SplitLoop(s, k + 1,
               IF ch = "<" THEN
                   [st EXCEPT !.depth = @ + 1, !.current = Append(@, ch)]
               ELSE IF ch = ">" THEN
                   [st EXCEPT !.depth = @ - 1, !.current = Append(@, ch)]
               ELSE IF ch = "|" /\ st.depth > 0 THEN
                   [st EXCEPT !.current = Append(@, ch)]
               ELSE IF ch = "|" /\ st.depth = 0 THEN
                   IF Trim(st.current) # <<>>
                   THEN [st EXCEPT !.result = Append(@, Trim(st.current)),
                                   !.current = <<>>]
                   ELSE st
               ELSE
                   \* '|' at negative depth matches neither guard and falls
                   \* through to the default arm with every other char
                   [st EXCEPT !.current = Append(@, ch)])

\* The top-level segments the loop collects (before the fallback decision)
top_level_segments(s) ==
    LET st == SplitLoop(s, 1, [result |-> <<>>, current |-> <<>>, depth |-> 0])
    IN  IF Trim(st.current) # <<>>
        THEN Append(st.result, Trim(st.current))
        ELSE st.result

\* only the first alternative of every parameter is kept
RECURSIVE cartesian_join_first(_, _)
cartesian_join_first(results, expanded_params) ==
    IF expanded_params = <<>> THEN results
    ELSE cartesian_join_first(
            [r \in 1..Len(results) |->
                (IF results[r] # <<>> THEN results[r] \o <<",", " ">> ELSE results[r])
                \o Head(expanded_params)[1]],
            Tail(expanded_params))

\* Cartesian product of the per-parameter alternatives, joined with ", "
RECURSIVE cartesian_join(_, _)
cartesian_join(results, expanded_params) ==
    IF expanded_params = <<>> THEN results
    ELSE LET alternatives == Head(expanded_params)
             new_results ==
                 Concat([r \in 1..Len(results) |->
                    [a \in 1..Len(alternatives) |->
                        (IF results[r] # <<>> THEN results[r] \o <<",", " ">>
                                               ELSE results[r])
                        \o alternatives[a]]])
         IN  cartesian_join(new_results, Tail(expanded_params))

TrimAll(ss) == [k \in 1..Len(ss) |-> Trim(ss[k])]

expand_type_parameter_alternatives(s) ==
    LET start_pos == FindCh(s, "<")
        end_pos   == RFindCh(s, ">")
    IN  IF start_pos # 0 /\ end_pos # 0 /\ start_pos < end_pos THEN
            LET prefix == SubSeq(s, 1, start_pos)
                suffix == SubSeq(s, end_pos, Len(s))
                params == SubSeq(s, start_pos + 1, end_pos - 1)
                param_parts == SplitCh(params, ",")
                expanded_params ==
                    [k \in 1..Len(param_parts) |->
                        IF ContainsCh(param_parts[k], "|")
                        THEN TrimAll(SplitCh(param_parts[k], "|"))
                        ELSE <<Trim(param_parts[k])>>]
                results == cartesian_join(<<<<>>>>, expanded_params)
            IN  [k \in 1..Len(results) |-> prefix \o results[k] \o suffix]
        ELSE <<s>>

\* every string with a `|` goes to the parameter-level expansion
split_parameter_level_first(s) ==
    IF ContainsCh(s, "|") THEN expand_type_parameter_alternatives(s)
    ELSE IF Trim(s) = <<>> THEN <<s>> ELSE <<Trim(s)>>

split_by_pipe_respecting_brackets(s) ==
    LET result == top_level_segments(s)
    IN  IF Len(result) <= 1 /\ ContainsCh(s, "|")
        THEN expand_type_parameter_alternatives(s)
        ELSE IF result = <<>> THEN <<s>> ELSE result

\* ------------------------------------------------------------------------
\* syn::parse_str::<Type>, on the token alphabet of the pattern language:
\* a type is `_` or an identifier optionally followed by `<` args `>`, args
\* a comma-separated list of types (empty list and trailing comma allowed).
\* ------------------------------------------------------------------------

Letters == {"A", "B", "C", "D", "E", "F", "G", "H", "I", "J", "K", "L", "M", "N",
            "O", "P", "Q", "R", "S", "T", "U", "V", "W", "X", "Y", "Z"}

IsIdentCh(c) == c \in Letters \/ c = "_"

RECURSIVE SkipWs(_, _)
SkipWs(s, k) == IF k <= Len(s) /\ IsWs(s[k]) THEN SkipWs(s, k + 1) ELSE k

RECURSIVE IdentEnd(_, _)
IdentEnd(s, k) == IF k <= Len(s) /\ IsIdentCh(s[k]) THEN IdentEnd(s, k + 1) ELSE k

\* ParseType / ParseArgs return the index after what they consumed, 0 on a
\* syntax error.
RECURSIVE ParseType(_, _)
RECURSIVE ParseArgs(_, _)
ParseType(s, k0) ==
    LET k == SkipWs(s, k0)
    IN  IF k > Len(s) \/ ~IsIdentCh(s[k]) THEN 0
        ELSE LET e == IdentEnd(s, k)
                 n == SkipWs(s, e)
             IN  IF SubSeq(s, k, e - 1) = <<"_">> THEN e
                 ELSE IF n <= Len(s) /\ s[n] = "<" THEN ParseArgs(s, n + 1)
                 ELSE e

ParseArgs(s, k0) ==
    LET k == SkipWs(s, k0)
    IN  IF k > Len(s) THEN 0
        ELSE IF s[k] = ">" THEN k + 1
        ELSE LET t == ParseType(s, k)
                 n == SkipWs(s, t)
             IN  IF t = 0 \/ n > Len(s) THEN 0
                 ELSE IF s[n] = "," THEN ParseArgs(s, n + 1)
                 ELSE IF s[n] = ">" THEN n + 1
                 ELSE 0

\* the tokens of a string: its chars without the whitespace
StripWs(s) == SelectSeq(s, LAMBDA c : ~IsWs(c))

\* Ok(Type) carries the token sequence of the type; two syn::Type values are
\* equal when their tokens are.
syn_parse_str(s) ==
    LET e == ParseType(s, 1)
    IN  IF e # 0 /\ SkipWs(s, e) > Len(s)
        THEN [ok |-> TRUE, ty |-> StripWs(s)]
        ELSE [ok |-> FALSE, ty |-> <<>>]

\* ------------------------------------------------------------------------
\* Wildcard (type hole) resolver
\* ------------------------------------------------------------------------

has_type_hole(target_str) ==
    \/ ContainsStr(target_str, <<"<", "_">>)
    \/ ContainsStr(target_str, <<",", " ", "_">>)
    \/ ContainsStr(target_str, <<"_", ">">>)

\* the range check left out: a hole beyond the parameters is recorded and
\* stays `_`
flush_token_unchecked(st, params) ==
    IF st.current_token = <<>> THEN st
    ELSE IF Trim(st.current_token) = <<"_">> THEN
        [st EXCEPT
            !.type_hole_positions = Append(@, st.param_index),
            !.resolved_target =
                @ \o (IF st.param_index < Len(params)
                      THEN params[st.param_index + 1] ELSE <<"_">>),
            !.current_token = <<>>]
    ELSE [st EXCEPT !.resolved_target = @ \o st.current_token,
                    !.current_token = <<>>]

\* what the '>' and ',' arms do with the accumulated token: a token that
\* trims to "_" is a type hole, recorded and replaced by the generic
\* parameter at param_index, or an error when there is no such parameter
flush_token(st, params) ==
    IF st.current_token = <<>> THEN st
    ELSE IF Trim(st.current_token) = <<"_">> THEN
        IF st.param_index < Len(params)
        THEN [st EXCEPT
                !.type_hole_positions = Append(@, st.param_index),
                !.resolved_target = @ \o params[st.param_index + 1],
                !.current_token = <<>>]
        ELSE [st EXCEPT
                !.type_hole_positions = Append(@, st.param_index),
                !.err = [kind |-> "TypeHoleOutOfRange",
                         position |-> st.param_index,
                         count |-> Len(params)]]
    ELSE [st EXCEPT !.resolved_target = @ \o st.current_token,
                    !.current_token = <<>>]

NoErr == [kind |-> "None"]

RECURSIVE HoleLoop(_, _, _, _)
HoleLoop(s, k, st, params) ==
    IF k > Len(s) \/ st.err # NoErr THEN st
    ELSE LET ch == s[k]
         IN  HoleLoop(s, k + 1,
               IF ch = "<" THEN
                   [st EXCEPT !.resolved_target = @ \o st.current_token \o <<ch>>,
                              !.current_token = <<>>,
                              !.in_angle_brackets = TRUE,
                              !.param_index = 0]
               ELSE IF ch = ">" THEN
                   LET f == flush_token(st, params)
                   IN  IF f.err # NoErr THEN f
                       ELSE [f EXCEPT !.resolved_target = @ \o <<ch>>,
                                      !.in_angle_brackets = FALSE]
               ELSE IF ch = "," /\ st.in_angle_brackets THEN
                   LET f == flush_token(st, params)
                   IN  IF f.err # NoErr THEN f
                       ELSE [f EXCEPT !.resolved_target = @ \o <<ch, " ">>,
                                      !.param_index = @ + 1]
               ELSE [st EXCEPT !.current_token = Append(@, ch)],
               params)

\* a pattern without `_` is given the last parameter as a held position
parse_target_holding_last(target_str, params) ==
    LET st == HoleLoop(target_str, 1,
                 [type_hole_positions |-> <<>>, resolved_target |-> <<>>,
                  param_index |-> 0, in_angle_brackets |-> FALSE,
                  current_token |-> <<>>, err |-> NoErr], params)
        t == syn_parse_str(st.resolved_target \o st.current_token)
    IN  IF st.err # NoErr
        THEN [ok |-> FALSE, target_type |-> <<>>, type_hole_positions |-> <<>>,
              err |-> st.err]
        ELSE IF t.ok
        THEN [ok |-> TRUE, target_type |-> t.ty,
              type_hole_positions |->
                  IF st.type_hole_positions = <<>> /\ Len(params) > 0
                  THEN <<Len(params) - 1>> ELSE st.type_hole_positions,
              err |-> NoErr]
        ELSE [ok |-> FALSE, target_type |-> <<>>, type_hole_positions |-> <<>>,
              err |-> [kind |-> "SynParseResolved", text |-> target_str]]

\* Ok(ParsedPattern) or Err; params are the entity's generic type parameter
\* names in declaration order
parse_target_with_type_holes(target_str, params) ==
    IF ~has_type_hole(target_str) THEN
        LET t == syn_parse_str(target_str)
        IN  IF t.ok
            THEN [ok |-> TRUE, target_type |-> t.ty, type_hole_positions |-> <<>>,
                  err |-> NoErr]
            ELSE [ok |-> FALSE, target_type |-> <<>>, type_hole_positions |-> <<>>,
                  err |-> [kind |-> "SynParse", text |-> target_str]]
    ELSE
        LET st == HoleLoop(target_str, 1,
                     [type_hole_positions |-> <<>>, resolved_target |-> <<>>,
                      param_index |-> 0, in_angle_brackets |-> FALSE,
                      current_token |-> <<>>, err |-> NoErr], params)
            resolved_target == st.resolved_target \o st.current_token
            t == syn_parse_str(resolved_target)
        IN  IF st.err # NoErr
            THEN [ok |-> FALSE, target_type |-> <<>>, type_hole_positions |-> <<>>,
                  err |-> st.err]
            ELSE IF t.ok
            THEN [ok |-> TRUE, target_type |-> t.ty,
                  type_hole_positions |-> st.type_hole_positions, err |-> NoErr]
            ELSE [ok |-> FALSE, target_type |-> <<>>, type_hole_positions |-> <<>>,
                  err |-> [kind |-> "SynParseResolved", text |-> resolved_target]]

\* ------------------------------------------------------------------------
\* Attribute parser: one #[coerce(...)] attribute -> CoercionSpec
\* A meta is [kind |-> "nv", key, value] (key = "string literal") or
\* [kind |-> "path", key]; key names are kept as written in the attribute.
\* ------------------------------------------------------------------------

Borrowed == "Borrowed"
Owned == "Owned"
Cloned == "Cloned"
CoercionMode == {Borrowed, Owned, Cloned}
None == "None"

FromKeys == {"borrowed_from", "owned_from", "cloned_from"}
ToKeys == {"borrowed_to", "owned_to", "cloned_to"}

key_mode(key) ==
    IF key \in {"borrowed_from", "borrowed_to"} THEN Borrowed
    ELSE IF key \in {"owned_from", "owned_to"} THEN Owned
    ELSE Cloned

\* the mode comparison left out
modes_mismatch_never(from_mode_seen, to_mode_seen) == FALSE

\* line 640-641: both sides seen and naming different modes
modes_mismatch(from_mode_seen, to_mode_seen) ==
    from_mode_seen # None /\ to_mode_seen # None /\ from_mode_seen # to_mode_seen

\* the asref check left out
asref_misused_never(has_asref, mode) == FALSE

\* line 653
asref_misused(has_asref, mode) == has_asref /\ mode # Borrowed

\* the no-op check left out
noop_index_never(from_patterns, to_pattern) == 0

\* the no-op check comparing the strings as written, untrimmed
noop_index_untrimmed(from_patterns, to_pattern) ==
    IF \E k \in 1..Len(from_patterns) : from_patterns[k] = to_pattern
    THEN CHOOSE k \in 1..Len(from_patterns) : from_patterns[k] = to_pattern
    ELSE 0

\* line 662-663: some from pattern equals the to pattern after trimming;
\* the value is the first such pattern's index, 0 when there is none
noop_index(from_patterns, to_pattern) ==
    IF \E k \in 1..Len(from_patterns) : Trim(from_patterns[k]) = Trim(to_pattern)
    THEN CHOOSE k \in 1..Len(from_patterns) :
            /\ Trim(from_patterns[k]) = Trim(to_pattern)
            /\ \A j \in 1..(k - 1) : Trim(from_patterns[j]) # Trim(to_pattern)
    ELSE 0

\* the value is tested as written, not trimmed
is_empty_untrimmed(value) == value = <<>>

\* `value.trim().is_empty()` on the string of a source or target key
is_empty(value) == Trim(value) = <<>>

\* a later target key replaces the earlier one
duplicate_to_never(to_pattern) == FALSE

\* `if to_pattern.is_some()` in front of each of the three target keys
duplicate_to(to_pattern) == to_pattern.is_some

\* one iteration of the `for meta in metas` loop; st.err is set by a return
parse_meta(st, meta) ==
    IF meta.kind = "nv" THEN
        IF meta.key \in FromKeys THEN
            IF is_empty(meta.value)
            THEN [st EXCEPT !.mode = key_mode(meta.key),
                            !.from_mode_seen = key_mode(meta.key),
                            !.err = [kind |-> "EmptyPattern", key |-> meta.key]]
            ELSE [st EXCEPT !.mode = key_mode(meta.key),
                            !.from_mode_seen = key_mode(meta.key),
                            !.from_patterns = Append(@, meta.value)]
        ELSE IF meta.key \in ToKeys THEN
            IF duplicate_to(st.to_pattern)
            THEN [st EXCEPT !.err = [kind |-> "DuplicateTo", key |-> meta.key]]
            ELSE IF is_empty(meta.value)
            THEN [st EXCEPT !.mode = key_mode(meta.key),
                            !.to_mode_seen = key_mode(meta.key),
                            !.err = [kind |-> "EmptyPattern", key |-> meta.key]]
            ELSE [st EXCEPT !.mode = key_mode(meta.key),
                            !.to_mode_seen = key_mode(meta.key),
                            !.to_pattern = [is_some |-> TRUE, value |-> meta.value]]
        ELSE [st EXCEPT !.err = [kind |-> "UnexpectedKey", key |-> meta.key]]
    ELSE
        IF meta.key = "asref"
        THEN [st EXCEPT !.has_asref = TRUE]
        ELSE [st EXCEPT !.err = [kind |-> "UnexpectedMarker", key |-> meta.key]]

RECURSIVE parse_metas(_, _)
parse_metas(st, metas) ==
    IF metas = <<>> \/ st.err # NoErr THEN st
    ELSE parse_metas(parse_meta(st, Head(metas)), Tail(metas))

\* Ok(None) for an attribute that is no list (#[coerce]); Ok(Some(spec)) or
\* Err otherwise
parse_coerce_attr(attr) ==
    IF ~attr.is_list THEN [ok |-> TRUE, some |-> FALSE, spec |-> None, err |-> NoErr]
    ELSE
    LET st == parse_metas([mode |-> None, from_patterns |-> <<>>,
                           to_pattern |-> [is_some |-> FALSE, value |-> <<>>],
                           has_asref |-> FALSE,
                           from_mode_seen |-> None, to_mode_seen |-> None,
                           err |-> NoErr], attr.metas)
        Err(e) == [ok |-> FALSE, some |-> FALSE, spec |-> None, err |-> e]
    IN  IF st.err # NoErr THEN Err(st.err)
        ELSE IF st.mode = None THEN Err([kind |-> "MissingMode"])
        ELSE IF st.from_patterns = <<>> THEN Err([kind |-> "MissingSource"])
        ELSE IF ~st.to_pattern.is_some THEN Err([kind |-> "MissingTarget"])
        ELSE IF modes_mismatch(st.from_mode_seen, st.to_mode_seen)
        THEN Err([kind |-> "MismatchedModes", from_mode |-> st.from_mode_seen,
                  to_mode |-> st.to_mode_seen])
        ELSE IF asref_misused(st.has_asref, st.mode)
        THEN Err([kind |-> "AsRefNotBorrowed"])
        ELSE IF noop_index(st.from_patterns, st.to_pattern.value) # 0
        THEN Err([kind |-> "NoOp",
                  from_pattern |->
                      st.from_patterns[noop_index(st.from_patterns, st.to_pattern.value)],
                  to_pattern |-> st.to_pattern.value])
        ELSE [ok |-> TRUE, some |-> TRUE, err |-> NoErr,
              spec |-> [from_patterns |-> st.from_patterns,
                        to_pattern |-> st.to_pattern.value,
                        kind |-> st.mode,
                        generate_asref |-> st.has_asref]]

\* ------------------------------------------------------------------------
\* Expansion of one CoercionSpec into ParsedCoercion rules
\* ------------------------------------------------------------------------

\* the parity check left out
positions_mismatch_never(from_positions, to_positions) == FALSE

\* the parity check comparing only how many holes each side has
positions_mismatch_by_count(from_positions, to_positions) ==
    Len(from_positions) # Len(to_positions)

\* line 838
positions_mismatch(from_positions, to_positions) == from_positions # to_positions

\* A rule is the ParsedCoercion pushed at line 851; from_alternative and
\* to_alternative are the loop's two pattern strings the rule was built
\* from, kept with it.
RECURSIVE expand_to_loop(_, _, _, _, _)
expand_to_loop(from_alternative, from_parsed, to_alternatives, params, acc) ==
    IF to_alternatives = <<>> \/ ~acc.ok THEN acc
    ELSE LET to_alternative == Head(to_alternatives)
             to_parsed == parse_target_with_type_holes(to_alternative, params)
         IN  expand_to_loop(from_alternative, from_parsed, Tail(to_alternatives), params,
               IF ~to_parsed.ok
               THEN [ok |-> FALSE, rules |-> <<>>, err |-> to_parsed.err]
               ELSE IF positions_mismatch(from_parsed.type_hole_positions,
                                          to_parsed.type_hole_positions)
               THEN [ok |-> FALSE, rules |-> <<>>,
                     err |-> [kind |-> "TypeHoleMismatch",
                              from_alternative |-> from_alternative,
                              from_positions |-> from_parsed.type_hole_positions,
                              to_alternative |-> to_alternative,
                              to_positions |-> to_parsed.type_hole_positions]]
               ELSE [acc EXCEPT !.rules = Append(@,
                       [source_type |-> from_parsed.target_type,
                        target_type |-> to_parsed.target_type,
                        type_hole_positions |-> from_parsed.type_hole_positions,
                        from_alternative |-> from_alternative,
                        to_alternative |-> to_alternative])])

RECURSIVE expand_from_loop(_, _, _, _)
expand_from_loop(from_alternatives, to_alternatives, params, acc) ==
    IF from_alternatives = <<>> \/ ~acc.ok THEN acc
    ELSE LET from_alternative == Head(from_alternatives)
             from_parsed == parse_target_with_type_holes(from_alternative, params)
         IN  expand_from_loop(Tail(from_alternatives), to_alternatives, params,
               IF ~from_parsed.ok
               THEN [ok |-> FALSE, rules |-> <<>>, err |-> from_parsed.err]
               ELSE expand_to_loop(from_alternative, from_parsed,
                                   to_alternatives, params, acc))

RECURSIVE expand_patterns_loop(_, _, _, _)
expand_patterns_loop(from_patterns, to_alternatives, params, acc) ==
    IF from_patterns = <<>> \/ ~acc.ok THEN acc
    ELSE expand_patterns_loop(Tail(from_patterns), to_alternatives, params,
            expand_from_loop(split_by_pipe_respecting_brackets(Head(from_patterns)),
                             to_alternatives, params, acc))

\* only the first target alternative is paired with the sources
expand_coercion_spec_first_target(spec, params) ==
    expand_patterns_loop(spec.from_patterns,
                         <<Head(split_by_pipe_respecting_brackets(spec.to_pattern))>>,
                         params,
                         [ok |-> TRUE, rules |-> <<>>, err |-> NoErr])

expand_coercion_spec(spec, params) ==
    expand_patterns_loop(spec.from_patterns,
                         split_by_pipe_respecting_brackets(spec.to_pattern),
                         params,
                         [ok |-> TRUE, rules |-> <<>>, err |-> NoErr])

\* ------------------------------------------------------------------------
\* Code emitter
\* ------------------------------------------------------------------------

\* extract_type_hole_generics: the generic parameters at the type hole
\* positions (positions without a parameter are skipped)
RECURSIVE extract_type_hole_generics(_, _)
extract_type_hole_generics(params, type_hole_positions) ==
    IF type_hole_positions = <<>> THEN <<>>
    ELSE LET pos == Head(type_hole_positions)
             rest == extract_type_hole_generics(params, Tail(type_hole_positions))
         IN  IF pos < Len(params) THEN <<params[pos + 1]>> \o rest ELSE rest

\* the two `let ... else` guards every generate_*_impl starts with: the
\* target must be a type path whose last segment has angle brackets
target_guard(target_type) ==
    IF target_type = <<"_">> THEN [kind |-> "TargetNotTypePath"]
    ELSE IF ~ContainsCh(target_type, "<") THEN [kind |-> "TargetWithoutParameters"]
    ELSE NoErr

TraitOf(mode) ==
    IF mode = Borrowed THEN "CoerceRef"
    ELSE IF mode = Owned THEN "CoerceOwned" ELSE "CoerceCloned"

\* the cloned method transmuting self itself, then cloning
BodyOf_original_first(mode) ==
    IF mode = Cloned THEN <<"transmute(self)", "clone()">> ELSE <<"transmute(self)">>

\* what the emitted method does with self
BodyOf(mode) ==
    IF mode = Borrowed THEN <<"transmute(self)">>
    ELSE IF mode = Owned THEN <<"transmute(self)">>
    ELSE <<"self.clone()", "transmute(clone)">>

\* source and target exchanged in the impl header
impl_item_swapped(mode, params, coercion) ==
    [item |-> "impl", trait |-> TraitOf(mode),
     generics |-> extract_type_hole_generics(params, coercion.type_hole_positions),
     target_type |-> coercion.source_type,
     source_type |-> coercion.target_type,
     takes |-> IF mode = Owned THEN "self" ELSE "&self",
     body |-> BodyOf(mode)]

\* the `impl<generics> Trait<target> for source` item of generate_borrowed_impl,
\* generate_owned_impl and generate_cloned_impl
impl_item(mode, params, coercion) ==
    [item |-> "impl", trait |-> TraitOf(mode),
     generics |-> extract_type_hole_generics(params, coercion.type_hole_positions),
     target_type |-> coercion.target_type,
     source_type |-> coercion.source_type,
     takes |-> IF mode = Owned THEN "self" ELSE "&self",
     body |-> BodyOf(mode)]

\* generate_asref_impl
asref_item(params, coercion) ==
    [item |-> "impl", trait |-> "AsRef",
     generics |-> extract_type_hole_generics(params, coercion.type_hole_positions),
     target_type |-> coercion.target_type,
     source_type |-> coercion.source_type,
     takes |-> "&self",
     body |-> <<"self.coerce()">>]

SeqContains(seq, x) == \E k \in 1..Len(seq) : seq[k] = x

\* the first coercion whose generate_*_impl call fails, 0 when none does
first_failing(coercions) ==
    IF \E k \in 1..Len(coercions) : target_guard(coercions[k].target_type) # NoErr
    THEN CHOOSE k \in 1..Len(coercions) :
            /\ target_guard(coercions[k].target_type) # NoErr
            /\ \A j \in 1..(k - 1) : target_guard(coercions[j].target_type) = NoErr
    ELSE 0

\* the tokens one `if !..._coercions.is_empty()` block appends to output:
\* trait definition, impls, inherent method, then the AsRef impls
mode_block(mode, params, coercions, asref_for) ==
    IF coercions = <<>> THEN <<>>
    ELSE <<[item |-> "trait", trait |-> TraitOf(mode)]>>
         \o [k \in 1..Len(coercions) |-> impl_item(mode, params, coercions[k])]
         \o <<[item |-> "inherent", trait |-> TraitOf(mode)]>>
         \o LET marked == SelectSeq([k \in 1..Len(coercions) |-> k],
                                    LAMBDA k : SeqContains(asref_for, k - 1))
            IN  [j \in 1..Len(marked) |-> asref_item(params, coercions[marked[j]])]

\* 0 .. n-1 as a Vec
Range0(n) == [k \in 1..n |-> k - 1]

\* ------------------------------------------------------------------------
\* The conversions the emitted impls make available: `x.coerce()` (or
\* into_coerced, to_coerced, as_ref) from the concrete type StructName<S> to
\* StructName<T> type-checks when some emitted impl header
\* `impl<generics> Trait<target_type> for source_type` has an instance with
\* source_type = StructName<S> and target_type = StructName<T>.
\* ------------------------------------------------------------------------

\* the deriving struct's name
StructName == <<"T">>

\* base name and arguments of a type `Base<arg, ...>` without nested brackets
TypeIsFlat(ty) ==
    /\ Cardinality({k \in 1..Len(ty) : ty[k] = "<"}) = 1
    /\ Cardinality({k \in 1..Len(ty) : ty[k] = ">"}) = 1
    /\ ty[Len(ty)] = ">"
TypeBase(ty) == SubSeq(ty, 1, FindCh(ty, "<") - 1)
TypeArgs(ty) == SplitCh(SubSeq(ty, FindCh(ty, "<") + 1, Len(ty) - 1), ",")

\* S and T are the type arguments of the two concrete types, one marker type
\* name each. An argument of the header that names one of the impl's
\* generics is a variable, bound alike wherever it occurs; any other
\* argument is a type name and has to be the marker itself (`_` is no type
\* name: a header with `_` in it has no instance).
impl_applies(item, S, T) ==
    /\ TypeIsFlat(item.source_type) /\ TypeIsFlat(item.target_type)
    /\ TypeBase(item.source_type) = StructName
    /\ TypeBase(item.target_type) = StructName
    /\ LET args == TypeArgs(item.source_type) \o TypeArgs(item.target_type)
           vals == S \o T
           generics == {item.generics[k] : k \in 1..Len(item.generics)}
       IN  /\ Len(TypeArgs(item.source_type)) = Len(S)
           /\ Len(TypeArgs(item.target_type)) = Len(T)
           /\ \A i \in 1..Len(args) : args[i] \in generics \/ args[i] = <<vals[i]>>
           /\ \A i, j \in 1..Len(args) :
                 args[i] \in generics /\ args[i] = args[j] => vals[i] = vals[j]

\* ------------------------------------------------------------------------
\* Inputs: the deriving entity (its data kind, its generic type parameters)
\* and its #[coerce(...)] attributes
\* ------------------------------------------------------------------------

\* most attributes an entity carries
MaxAttrs == 2
\* most generic type parameters an entity declares
MaxParams == 3

GenericNames == << <<"H">>, <<"I">>, <<"J">>, <<"K">>, <<"L">> >>
ParamLists == {SubSeq(GenericNames, 1, n) : n \in 0..MaxParams}

\* pattern strings
T0 == <<"T">>
T1(a) == <<"T", "<">> \o a \o <<">">>
T2(a, b) == <<"T", "<">> \o a \o <<",", " ">> \o b \o <<">">>
T3(a, b, c) == <<"T", "<">> \o a \o <<",", " ">> \o b \o <<",", " ">> \o c \o <<">">>
N2(a, b) == <<"N", "<">> \o a \o <<",", " ">> \o b \o <<">">>
Or(a, b) == a \o <<" ", "|", " ">> \o b
Hole == <<"_">>
Id(c) == <<c>>

NV(key, value) == [kind |-> "nv", key |-> key, value |-> value]
Marker(key) == [kind |-> "path", key |-> key, value |-> <<>>]
Attr(metas) == [is_list |-> TRUE, metas |-> metas]
BareAttr == [is_list |-> FALSE, metas |-> <<>>]

FromKey(mode) ==
    IF mode = Borrowed THEN "borrowed_from"
    ELSE IF mode = Owned THEN "owned_from" ELSE "cloned_from"
ToKey(mode) ==
    IF mode = Borrowed THEN "borrowed_to"
    ELSE IF mode = Owned THEN "owned_to" ELSE "cloned_to"

\* #[coerce(<m>_from = "f", <n>_to = "t")]
FromTo(m, f, n, t) == Attr(<<NV(FromKey(m), f), NV(ToKey(n), t)>>)

\* tests/nested_alternatives.rs:28-29, names shortened to one letter
NestedFrom == Or(N2(Or(Id("A"), Id("B")), Or(Id("X"), Id("Y"))), N2(Id("C"), Id("Z")))
NestedTo ==
    Or(Or(N2(Or(Id("M"), Id("N")), Or(Id("P"), Id("Q"))), N2(Id("O"), Id("R"))),
       N2(Or(Id("S"), Id("T")), Or(Id("U"), Id("V"))))

\* (from, to) pattern pairs; each is used with every pair of modes
PatternPairs ==
    { <<T1(Id("A")), T1(Id("B"))>>,
      <<T1(Id("A")), T1(Id("A"))>>,                    \* tests/ui/noop_coercion.rs
      <<<<" ">> \o T1(Id("A")), T1(Id("A")) \o <<" ">>>>,
      <<T1(Or(Id("A"), Id("B"))), T1(Id("G"))>>,       \* tests/ui/coerce_unlisted_source_type.rs
      <<T2(Id("A"), Hole), T2(Id("B"), Hole)>>,        \* tests/ui/type_hole_prevents_cross_coercion.rs
      <<T2(Or(Id("X"), Id("Y")), Hole), T2(Id("Z"), Hole)>>,  \* tests/type_hole.rs
      <<T2(Hole, Id("A")), T2(Id("B"), Hole)>>,
      <<T2(Id("A"), Id("F")), T2(Or(Id("S"), Id("A")), Or(Id("F"), Id("G")))>> \* tests/typed_path.rs
    }

\* pattern pairs used in borrowed mode only
BorrowedPairs ==
    { <<Or(T1(Id("A")), T1(Id("B"))), Or(Or(T1(Id("C")), T1(Id("D"))), T1(Id("E")))>>,
      <<T2(Id("A"), Id("S")), Or(T2(Id("B"), Id("O")), T2(Id("D"), Id("E")))>>, \* tests/complex.rs
      <<T2(Or(Id("A"), Id("B")), Or(Id("F"), Id("D"))), T2(Id("G"), Id("S"))>>,
      <<T2(Hole, Or(Id("F"), Id("D"))), T2(Hole, Id("S"))>>,  \* examples/partial_coercion.rs:32
      <<T1(Hole), T1(Id("B"))>>,
      <<T1(Id("A")), T0>>,
      <<T3(Id("A"), Hole, Hole), T3(Id("B"), Hole, Hole)>>,
      <<T3(Hole, Id("A"), Hole), T3(Hole, Hole, Id("B"))>>,
      <<<<"T", "<", "A", ",", "_", " ", ">">>, T2(Id("B"), Id("C"))>>,
      <<<<"T", "<", "A", ",", "_", ",", "B", ">">>, <<"T", "<", "C", ",", "_", ",", "B", ">">>>>,
      <<NestedFrom, NestedTo>>,
      <<T2(Or(N2(Id("A"), Id("B")), Id("C")), Id("D")), T2(Id("G"), Id("D"))>>,
      <<T1(Id("A")) \o <<" ", "|">>, T1(Id("B"))>>,
      <<<<"|", " ">> \o T1(Id("A")), T1(Id("B"))>>,
      <<T1(Id("A")), T1(Or(Id("B"), Id("C"))) \o <<" ", "|">>>>
    }

\* the scenario `cloned_from = "Msg<Json|Xml|Proto, High>"`,
\* `cloned_to = "Msg<Any, High>"`, names shortened to one letter
ClonedFrom == <<"T", "<", "A", "|", "B", "|", "C", ",", " ", "D", ">">>
ClonedTo == T2(Id("G"), Id("D"))

\* the scenario `borrowed_from = "Path<Absolute|Relative, File>"`,
\* `borrowed_to = "Path<Generic, File>"`, names shortened to one letter
PathFrom == <<"T", "<", "A", "|", "R", ",", " ", "F", ">">>
PathTo == T2(Id("G"), Id("F"))

SingleAttrs ==
    {FromTo(m, pp[1], n, pp[2]) : m \in CoercionMode, n \in CoercionMode, pp \in PatternPairs}
    \cup {FromTo(Borrowed, pp[1], Borrowed, pp[2]) : pp \in BorrowedPairs}
    \cup {FromTo(Cloned, ClonedFrom, Cloned, ClonedTo)}
    \cup {FromTo(Borrowed, PathFrom, Borrowed, PathTo)}
    \cup { BareAttr,
           Attr(<<>>),
           Attr(<<Marker("asref")>>),
           Attr(<<NV("borrowed", T1(Id("B")))>>),
           Attr(<<NV("owned", T1(Id("B")))>>),
           Attr(<<NV("cloned", T1(Id("B")))>>),
           Attr(<<NV("borrowed_from", T1(Id("A")))>>),
           Attr(<<NV("owned_to", T1(Id("B")))>>),
           Attr(<<NV("cloned_from", <<" ">>), NV("cloned_to", T1(Id("B")))>>),
           Attr(<<NV("borrowed_from", T1(Id("A"))), NV("borrowed_to", <<>>)>>),
           Attr(<<NV("borrowed_from", T1(Id("A"))), NV("borrowed_to", T1(Id("B"))),
                  NV("borrowed_to", T1(Id("C")))>>),
           Attr(<<NV("borrowed_to", T1(Id("A"))), NV("owned_from", T1(Id("A")))>>),
           Attr(<<NV("borrowed_from", T1(Id("A"))), NV("borrowed_to", T1(Id("B"))),
                  NV("owned_to", T1(Id("C")))>>),
           Attr(<<NV("cloned_to", T1(Id("B"))), NV("cloned_from", T1(Id("A"))),
                  NV("borrowed_to", T1(Id("B")))>>),
           Attr(<<NV("owned_from", T1(Id("A"))), NV("owned_to", T1(Id("B"))),
                  NV("owned_to", <<" ">>)>>),
           Attr(<<NV("owned_from", T1(Id("A"))), NV("owned_from", <<>>),
                  NV("owned_to", T1(Id("B")))>>),
           Attr(<<NV("cloned_from", T1(Id("A"))), NV("cloned_to", <<" ", " ">>)>>),
           Attr(<<NV("borrowed_from", T1(Id("A"))), NV("owned_from", T1(Id("C"))),
                  NV("owned_to", T1(Id("B")))>>),
           Attr(<<NV("borrowed_from", T1(Id("A"))), NV("borrowed_from", T1(Id("C"))),
                  NV("borrowed_to", T1(Id("B")))>>),
           Attr(<<NV("borrowed_from", T1(Id("A"))), NV("borrowed_to", T1(Id("B"))),
                  Marker("asref")>>),
           Attr(<<NV("owned_from", T1(Id("A"))), NV("owned_to", T1(Id("B"))),
                  Marker("asref")>>),
           Attr(<<NV("cloned_from", T1(Id("A"))), NV("cloned_to", T1(Id("B"))),
                  Marker("asref")>>),
           Attr(<<Marker("asref"), NV("owned_from", T1(Id("A"))),
                  NV("owned_to", T1(Id("B")))>>) }

\* attributes that are combined into longer attribute lists
ListAttrs ==
    { FromTo(Borrowed, T1(Id("A")), Borrowed, T1(Id("B"))),
      Attr(<<NV("borrowed_from", T1(Id("C"))), NV("borrowed_to", T1(Id("B"))),
             Marker("asref")>>),
      FromTo(Owned, T1(Id("A")), Owned, T1(Id("B"))),
      FromTo(Cloned, T2(Id("A"), Hole), Cloned, T2(Id("B"), Hole)),
      FromTo(Borrowed, T1(Id("A")), Cloned, T1(Id("B"))),
      FromTo(Borrowed, T2(Hole, Id("A")), Borrowed, T2(Id("B"), Hole)),
      FromTo(Cloned, T1(Id("A")), Cloned, T0) }

RECURSIVE SeqsOfLen(_, _)
SeqsOfLen(S, n) ==
    IF n = 0 THEN {<<>>}
    ELSE {Append(q, x) : q \in SeqsOfLen(S, n - 1), x \in S}

AttrLists ==
    {<<>>} \cup {<<a>> : a \in SingleAttrs}
    \cup UNION {SeqsOfLen(ListAttrs, n) : n \in 2..MaxAttrs}

\* ------------------------------------------------------------------------
\* impl_coerce as a state machine
\* ------------------------------------------------------------------------

VARIABLES
    data,               \* input.data: "struct_named", "struct_unnamed" or "enum"
    params,             \* the type parameters of input.generics
    attrs,              \* input.attrs (the coerce attributes)
    pc,                 \* position in impl_coerce
    idx,                \* index of the loop the function is in (1-based)
    coercion_specs,
    expanded,           \* the rules of the last expand_coercion_spec call
    borrowed_coercions,
    owned_coercions,
    cloned_coercions,
    generate_asref_for,
    output,             \* the token stream built so far
    returned,           \* what derive_coerce hands back to the compiler
    values,             \* the values of the deriving struct a program has made
    refs                \* the references coerce() and as_ref() have returned

vars == <<data, params, attrs, pc, idx, coercion_specs, expanded, borrowed_coercions,
          owned_coercions, cloned_coercions, generate_asref_for, output, returned,
          values, refs>>

Pending == [state |-> "pending", items |-> <<>>, err |-> NoErr, stage |-> "none"]
ReturnOk(items) == [state |-> "ok", items |-> items, err |-> NoErr, stage |-> "none"]
\* the error returned together with the tokens generated so far
ReturnErr_with_output(e, stage) ==
    [state |-> "err", items |-> output, err |-> e, stage |-> stage]

\* derive_coerce turns Err into a compile_error! invocation and nothing else
ReturnErr(e, stage) == [state |-> "err", items |-> <<>>, err |-> e, stage |-> stage]

Init ==
    /\ \/ /\ data = "struct_named"
          /\ params \in ParamLists
          /\ attrs \in AttrLists
       \/ /\ data \in {"struct_unnamed", "enum"}
          /\ params = SubSeq(GenericNames, 1, 1)
          /\ attrs = <<FromTo(Borrowed, T1(Id("A")), Borrowed, T1(Id("B")))>>
    /\ pc = "start"
    /\ idx = 1
    /\ coercion_specs = <<>>
    /\ expanded = <<>>
    /\ borrowed_coercions = <<>>
    /\ owned_coercions = <<>>
    /\ cloned_coercions = <<>>
    /\ generate_asref_for = <<>>
    /\ output = <<>>
    /\ returned = Pending
    /\ values = <<>>
    /\ refs = <<>>

\* lines 150-170: only structs with named fields are accepted
CheckInput ==
    /\ pc = "start"
    /\ IF data = "enum"
       THEN /\ returned' = ReturnErr([kind |-> "NotAStruct"], "input")
            /\ pc' = "done"
       ELSE IF data = "struct_unnamed"
       THEN /\ returned' = ReturnErr([kind |-> "NoNamedFields"], "input")
            /\ pc' = "done"
       ELSE /\ pc' = "parse"
            /\ UNCHANGED returned
    /\ UNCHANGED <<values, refs>>
    /\ UNCHANGED <<data, params, attrs, idx, coercion_specs, expanded, borrowed_coercions,
                   owned_coercions, cloned_coercions, generate_asref_for, output>>

\* lines 174-180: one iteration of the attribute loop
ParseAttr ==
    /\ pc = "parse"
    /\ idx <= Len(attrs)
    /\ LET r == parse_coerce_attr(attrs[idx])
       IN  IF ~r.ok
           THEN /\ returned' = ReturnErr(r.err, "parse")
                /\ pc' = "done"
                /\ UNCHANGED <<idx, coercion_specs>>
           ELSE /\ coercion_specs' =
                      IF r.some THEN Append(coercion_specs, r.spec) ELSE coercion_specs
                /\ idx' = idx + 1
                /\ UNCHANGED <<pc, returned>>
    /\ UNCHANGED <<values, refs>>
    /\ UNCHANGED <<data, params, attrs, expanded, borrowed_coercions, owned_coercions,
                   cloned_coercions, generate_asref_for, output>>

\* an entity without specs goes on to generation
no_specs_never(specs) == FALSE

\* `if coercion_specs.is_empty()`
no_specs(specs) == specs = <<>>

\* lines 182-187: after the loop, at least one spec is required
CheckSpecs ==
    /\ pc = "parse"
    /\ idx > Len(attrs)
    /\ IF no_specs(coercion_specs)
       THEN /\ returned' = ReturnErr([kind |-> "NoCoerceAttribute"], "parse")
            /\ pc' = "done"
            /\ UNCHANGED idx
       ELSE /\ pc' = "expand"
            /\ idx' = 1
            /\ UNCHANGED returned
    /\ UNCHANGED <<values, refs>>
    /\ UNCHANGED <<data, params, attrs, coercion_specs, expanded, borrowed_coercions,
                   owned_coercions, cloned_coercions, generate_asref_for, output>>

\* a rule that is in the list already is not added again
extend_new_only(coercions, rules) ==
    coercions \o SelectSeq(rules, LAMBDA r : ~SeqContains(coercions, r))

\* Vec::extend
extend(coercions, rules) == coercions \o rules

\* the rules of a spec come out in either direction
ExpandSpec_any_order ==
    /\ pc = "expand"
    /\ idx <= Len(coercion_specs)
    /\ LET spec == coercion_specs[idx]
           r == expand_coercion_spec(spec, params)
       IN  IF ~r.ok
           THEN /\ returned' = ReturnErr(r.err, "expand")
                /\ pc' = "done"
                /\ UNCHANGED <<idx, expanded, borrowed_coercions, owned_coercions,
                               cloned_coercions, generate_asref_for>>
           ELSE \E back \in BOOLEAN :
                /\ expanded' = [k \in 1..Len(r.rules) |->
                                    r.rules[IF back THEN Len(r.rules) + 1 - k ELSE k]]
                /\ idx' = idx + 1
                /\ borrowed_coercions' =
                      IF spec.kind = Borrowed THEN borrowed_coercions \o expanded'
                      ELSE borrowed_coercions
                /\ owned_coercions' =
                      IF spec.kind = Owned THEN owned_coercions \o expanded'
                      ELSE owned_coercions
                /\ cloned_coercions' =
                      IF spec.kind = Cloned THEN cloned_coercions \o expanded'
                      ELSE cloned_coercions
                /\ generate_asref_for' =
                      IF spec.kind = Borrowed /\ spec.generate_asref
                      THEN generate_asref_for \o Range0(Len(borrowed_coercions'))
                      ELSE generate_asref_for
                /\ UNCHANGED <<pc, returned>>
    /\ UNCHANGED <<values, refs>>
    /\ UNCHANGED <<data, params, attrs, coercion_specs, output>>

\* lines 195-208: one iteration of the expansion loop
ExpandSpec ==
    /\ pc = "expand"
    /\ idx <= Len(coercion_specs)
    /\ LET spec == coercion_specs[idx]
           r == expand_coercion_spec(spec, params)
       IN  IF ~r.ok
           THEN /\ returned' = ReturnErr(r.err, "expand")
                /\ pc' = "done"
                /\ UNCHANGED <<idx, expanded, borrowed_coercions, owned_coercions,
                               cloned_coercions, generate_asref_for>>
           ELSE /\ expanded' = r.rules
                /\ idx' = idx + 1
                /\ borrowed_coercions' =
                      IF spec.kind = Borrowed THEN extend(borrowed_coercions, r.rules)
                      ELSE borrowed_coercions
                /\ owned_coercions' =
                      IF spec.kind = Owned THEN extend(owned_coercions, r.rules)
                      ELSE owned_coercions
                /\ cloned_coercions' =
                      IF spec.kind = Cloned THEN extend(cloned_coercions, r.rules)
                      ELSE cloned_coercions
                /\ generate_asref_for' =
                      IF spec.kind = Borrowed /\ spec.generate_asref
                      THEN generate_asref_for \o Range0(Len(borrowed_coercions'))
                      ELSE generate_asref_for
                /\ UNCHANGED <<pc, returned>>
    /\ UNCHANGED <<values, refs>>
    /\ UNCHANGED <<data, params, attrs, coercion_specs, output>>

\* one of the three generation blocks (lines 212-263, 265-308, 310-353)
EmitBlock(at, next, mode, coercions, asref_for) ==
    /\ pc = at
    /\ IF first_failing(coercions) # 0
       THEN /\ returned' =
                  ReturnErr(target_guard(coercions[first_failing(coercions)].target_type),
                            "emit")
            /\ pc' = "done"
            /\ UNCHANGED output
       ELSE /\ output' = output \o mode_block(mode, params, coercions, asref_for)
            /\ pc' = next
            /\ returned' = IF next = "done" THEN ReturnOk(output') ELSE returned
    /\ UNCHANGED <<values, refs>>
    /\ UNCHANGED <<data, params, attrs, idx, coercion_specs, expanded, borrowed_coercions,
                   owned_coercions, cloned_coercions, generate_asref_for>>

\* the expansion loop is over: generation starts
StartEmit ==
    /\ pc = "expand"
    /\ idx > Len(coercion_specs)
    /\ pc' = "emit_borrowed"
    /\ UNCHANGED <<values, refs>>
    /\ UNCHANGED <<data, params, attrs, idx, coercion_specs, expanded, borrowed_coercions,
                   owned_coercions, cloned_coercions, generate_asref_for, output, returned>>

EmitBorrowed ==
    EmitBlock("emit_borrowed", "emit_owned", Borrowed, borrowed_coercions, generate_asref_for)

EmitOwned == EmitBlock("emit_owned", "emit_cloned", Owned, owned_coercions, <<>>)

\* the last block, then `Ok(output)` at line 355
EmitCloned == EmitBlock("emit_cloned", "done", Cloned, cloned_coercions, <<>>)

Next ==
    \/ CheckInput
    \/ ParseAttr
    \/ CheckSpecs
    \/ ExpandSpec
    \/ StartEmit
    \/ EmitBorrowed
    \/ EmitOwned
    \/ EmitCloned

Spec == Init /\ [][Next]_vars

\* ------------------------------------------------------------------------
\* The emitted methods at run time. The deriving struct's type parameters
\* occur only in PhantomData fields (as in every struct of tests/), so a
\* value is its type arguments and the contents of its other fields, and
\* the struct derives Clone. A reference is the value it points to and the
\* type it is seen at.
\* ------------------------------------------------------------------------

\* most values, and most references, a program holds
MaxValues == 3
MaxRefs == 2

\* contents of the non-phantom fields
FieldData == {"d1", "d2"}

\* the marker types of the program
RunMarkers == {"A", "B", "X", "Y", "Z"}
RunTypes == [1..Len(params) -> RunMarkers]

\* std::mem::transmute losing the contents
transmute_losing_fields(v, T) == [v EXCEPT !.ty = T, !.fields = "none"]

\* std::mem::transmute between two instances of the struct: the same bytes
\* at another type
transmute(v, T) == [v EXCEPT !.ty = T]

\* Clone::clone as derived
clone(v) == [v EXCEPT !.state = "live"]

\* `impl Trait<StructName<T>> for StructName<S>` is among the emitted items
Implements(trait, S, T) ==
    \E k \in 1..Len(returned.items) :
       /\ returned.items[k].item = "impl"
       /\ returned.items[k].trait = trait
       /\ impl_applies(returned.items[k], S, T)

\* the places a method can be called on: a live value at its own type, or
\* a live reference at the type it was coerced to
Places ==
    {[of |-> i, ty |-> values[i].ty] : i \in {j \in 1..Len(values) : values[j].state = "live"}}
    \cup {[of |-> refs[j].of, ty |-> refs[j].ty] :
             j \in {k \in 1..Len(refs) : refs[k].state = "live"}}

\* coerce consuming the value it is called on
coerce_consuming(vs, rs, p, T) ==
    [values |-> [vs EXCEPT ![p.of].state = "moved"],
     refs |-> Append(rs, [of |-> p.of, ty |-> T, state |-> "live"])]

\* fn coerce(&self) -> &Target { transmute(self) }: a reference to the same
\* value, seen at the target type
coerce(vs, rs, p, T) ==
    [values |-> vs,
     refs |-> Append(rs, [of |-> p.of, ty |-> T, state |-> "live"])]

\* fn as_ref(&self) -> &Target { self.coerce() }
as_ref(vs, rs, p, T) == coerce(vs, rs, p, T)

\* fn into_coerced(self) -> Target { transmute(self) }: the value is moved
\* into the call, which ends the borrows of it
into_coerced(vs, rs, i, T) ==
    [values |-> Append([vs EXCEPT ![i].state = "moved"], transmute(vs[i], T)),
     refs |-> [j \in 1..Len(rs) |->
                  IF rs[j].of = i THEN [rs[j] EXCEPT !.state = "ended"] ELSE rs[j]]]

\* to_coerced transmuting the value itself
to_coerced_in_place(vs, rs, p, T) ==
    [values |-> Append([vs EXCEPT ![p.of] = transmute(vs[p.of], T)],
                       transmute(vs[p.of], T)),
     refs |-> rs]

\* fn to_coerced(&self) -> Target { transmute(self.clone()) }
to_coerced(vs, rs, p, T) ==
    [values |-> Append(vs, transmute(clone(transmute(vs[p.of], p.ty)), T)),
     refs |-> rs]

Ran == pc = "done" /\ returned.state = "ok"

\* StructName::<S> { phantom fields, other fields: d }
New ==
    /\ Ran /\ values = <<>>
    /\ \E S \in RunTypes : \E d \in FieldData :
          values' = <<[ty |-> S, fields |-> d, state |-> "live"]>>
    /\ UNCHANGED refs
    /\ UNCHANGED <<data, params, attrs, pc, idx, coercion_specs, expanded,
                   borrowed_coercions, owned_coercions, cloned_coercions,
                   generate_asref_for, output, returned>>

Apply(r) == values' = r.values /\ refs' = r.refs

CallCoerce ==
    /\ Ran /\ Len(refs) < MaxRefs
    /\ \E p \in Places : \E T \in RunTypes :
          /\ Implements("CoerceRef", p.ty, T)
          /\ Apply(coerce(values, refs, p, T))
    /\ UNCHANGED <<data, params, attrs, pc, idx, coercion_specs, expanded,
                   borrowed_coercions, owned_coercions, cloned_coercions,
                   generate_asref_for, output, returned>>

CallAsRef ==
    /\ Ran /\ Len(refs) < MaxRefs
    /\ \E p \in Places : \E T \in RunTypes :
          /\ Implements("AsRef", p.ty, T)
          /\ Apply(as_ref(values, refs, p, T))
    /\ UNCHANGED <<data, params, attrs, pc, idx, coercion_specs, expanded,
                   borrowed_coercions, owned_coercions, cloned_coercions,
                   generate_asref_for, output, returned>>

\* self is taken by value: callable on a live value, not through a reference
CallIntoCoerced ==
    /\ Ran /\ Len(values) < MaxValues
    /\ \E i \in 1..Len(values) : \E T \in RunTypes :
          /\ values[i].state = "live"
          /\ Implements("CoerceOwned", values[i].ty, T)
          /\ Apply(into_coerced(values, refs, i, T))
    /\ UNCHANGED <<data, params, attrs, pc, idx, coercion_specs, expanded,
                   borrowed_coercions, owned_coercions, cloned_coercions,
                   generate_asref_for, output, returned>>

CallToCoerced ==
    /\ Ran /\ Len(values) < MaxValues
    /\ \E p \in Places : \E T \in RunTypes :
          /\ Implements("CoerceCloned", p.ty, T)
          /\ Apply(to_coerced(values, refs, p, T))
    /\ UNCHANGED <<data, params, attrs, pc, idx, coercion_specs, expanded,
                   borrowed_coercions, owned_coercions, cloned_coercions,
                   generate_asref_for, output, returned>>

RunNext ==
    \/ New
    \/ CallCoerce
    \/ CallAsRef
    \/ CallIntoCoerced
    \/ CallToCoerced

\* the entities whose methods are run: tests/owned.rs, tests/multi_owned.rs,
\* tests/complex_cloned.rs, tests/asref.rs, tests/type_hole.rs, and chains
\* through two modes
RunEntities ==
    { [params |-> SubSeq(GenericNames, 1, 1),
       attrs |-> <<FromTo(Owned, T1(Id("A")), Owned, T1(Id("B"))),
                   FromTo(Borrowed, T1(Id("A")), Borrowed, T1(Id("B")))>>],
      [params |-> SubSeq(GenericNames, 1, 2),
       attrs |-> <<FromTo(Owned, T2(Id("Z"), Id("Z")), Owned, T2(Id("X"), Id("Y"))),
                   FromTo(Owned, T2(Id("X"), Id("Y")), Owned, T2(Id("Y"), Id("X")))>>],
      [params |-> SubSeq(GenericNames, 1, 2),
       attrs |-> <<FromTo(Cloned, T2(Id("A"), Id("X")), Cloned,
                          Or(T2(Id("B"), Id("Y")), T2(Id("A"), Id("Y"))))>>],
      [params |-> SubSeq(GenericNames, 1, 1),
       attrs |-> <<Attr(<<NV("borrowed_from", T1(Id("A"))), NV("borrowed_to", T1(Id("B"))),
                          Marker("asref")>>),
                   FromTo(Cloned, T1(Id("B")), Cloned, T1(Id("X")))>>],
      [params |-> SubSeq(GenericNames, 1, 2),
       attrs |-> <<FromTo(Borrowed, T2(Or(Id("X"), Id("Y")), Hole), Borrowed,
                          T2(Id("Z"), Hole)),
                   FromTo(Cloned, T2(Id("Z"), Hole), Cloned, T2(Id("A"), Hole))>>],
      [params |-> SubSeq(GenericNames, 1, 2),
       attrs |-> <<FromTo(Owned, T2(Id("A"), Hole), Owned, T2(Id("B"), Hole)),
                   FromTo(Borrowed, T2(Id("B"), Hole), Borrowed, T2(Id("X"), Hole))>>] }

RunInit ==
    /\ data = "struct_named"
    /\ \E e \in RunEntities : params = e.params /\ attrs = e.attrs
    /\ pc = "start"
    /\ idx = 1
    /\ coercion_specs = <<>>
    /\ expanded = <<>>
    /\ borrowed_coercions = <<>>
    /\ owned_coercions = <<>>
    /\ cloned_coercions = <<>>
    /\ generate_asref_for = <<>>
    /\ output = <<>>
    /\ returned = Pending
    /\ values = <<>>
    /\ refs = <<>>

RunSpec == RunInit /\ [][Next \/ RunNext]_vars

\* ------------------------------------------------------------------------
\* Vocabulary of the statements below
\* ------------------------------------------------------------------------

Done == pc = "done"
Succeeded == returned.state = "ok"
Failed == returned.state = "err"

AllRules == borrowed_coercions \o owned_coercions \o cloned_coercions

\* expand_coercion_spec has returned Ok at least once: `expanded` holds the
\* rules of coercion_specs[idx - 1]
HasExpanded ==
    /\ idx > 1
    /\ \/ pc \in {"expand", "emit_borrowed", "emit_owned", "emit_cloned"}
       \/ pc = "done" /\ returned.stage \in {"none", "expand", "emit"}

PositionsOf(pattern) == parse_target_with_type_holes(pattern, params).type_hole_positions

SeqRange(seq) == {seq[k] : k \in 1..Len(seq)}

\* bracket depth in front of the k-th char
RECURSIVE DepthBefore(_, _)
DepthBefore(s, k) ==
    IF k <= 1 THEN 0
    ELSE DepthBefore(s, k - 1)
         + (IF s[k - 1] = "<" THEN 1 ELSE IF s[k - 1] = ">" THEN -1 ELSE 0)

\* the pieces of s between the chars c that stand at bracket depth d, trimmed
CutsAt(s, c, d) == {k \in 1..Len(s) : s[k] = c /\ DepthBefore(s, k) = d}
RECURSIVE PiecesFrom(_, _, _)
PiecesFrom(s, start, cuts) ==
    IF \E k \in cuts : k >= start
    THEN LET k == CHOOSE j \in cuts : j >= start /\ \A i \in cuts : i >= start => j <= i
         IN  <<Trim(SubSeq(s, start, k - 1))>> \o PiecesFrom(s, k + 1, cuts)
    ELSE <<Trim(SubSeq(s, start, Len(s)))>>
PiecesAt(s, c, d) == PiecesFrom(s, 1, CutsAt(s, c, d))

\* whole-pattern alternatives of a pattern string: split at `|` of depth 0
WholeAlternatives(s) == PiecesAt(s, "|", 0)

\* the pattern's alternation is whole-pattern only, every alternative present
TopLevelOnly(s) ==
    /\ CutsAt(s, "|", 0) = {k \in 1..Len(s) : s[k] = "|"}
    /\ \A k \in 1..Len(WholeAlternatives(s)) : WholeAlternatives(s)[k] # <<>>

\* a base name followed by one bracket pair without brackets inside
IsFlat(s) ==
    /\ Cardinality({k \in 1..Len(s) : s[k] = "<"}) = 1
    /\ Cardinality({k \in 1..Len(s) : s[k] = ">"}) = 1
    /\ Trim(s)[Len(Trim(s))] = ">"
    /\ FindCh(s, "<") < FindCh(s, ">")

\* the parameter slots of a flat pattern, trimmed
Slots(s) ==
    LET t == Trim(s)
    IN  PiecesAt(SubSeq(t, FindCh(t, "<") + 1, Len(t) - 1), ",", 0)

\* the alternatives written in one slot
SlotAlternatives(slot) == PiecesAt(slot, "|", 0)

RECURSIVE Product(_)
Product(ns) == IF ns = <<>> THEN 1 ELSE Head(ns) * Product(Tail(ns))

SlotProduct(s) ==
    Product([k \in 1..Len(Slots(s)) |-> Len(SlotAlternatives(Slots(s)[k]))])

\* ------------------------------------------------------------------------
\* C1  Parity invariant: every rule expand_coercion_spec has emitted, in
\* any mode, carries the type-hole position list of its source pattern, and
\* the target pattern's position list is the same list.
\* ------------------------------------------------------------------------
RuleHasParity(r) ==
    /\ PositionsOf(r.from_alternative) = PositionsOf(r.to_alternative)
    /\ r.type_hole_positions = PositionsOf(r.from_alternative)

Markers == {"A", "B", "X"}
ConcreteArgs == [1..Len(params) -> Markers]

RulesOfTrait(trait) ==
    IF trait \in {"CoerceRef", "AsRef"} THEN borrowed_coercions
    ELSE IF trait = "CoerceOwned" THEN owned_coercions
    ELSE cloned_coercions

SlotAdmits(slot, marker) == slot = <<"_">> \/ slot = <<marker>>

InstanceOfRule(S, T, r) ==
    /\ IsFlat(r.from_alternative) /\ IsFlat(r.to_alternative)
    /\ LET fs == Slots(r.from_alternative)
           ts == Slots(r.to_alternative)
       IN  /\ Len(fs) = Len(S) /\ Len(ts) = Len(T)
           /\ \A i \in 1..Len(S) : SlotAdmits(fs[i], S[i]) /\ SlotAdmits(ts[i], T[i])
           /\ \A i \in 1..Len(S) : (fs[i] = <<"_">> \/ ts[i] = <<"_">>) => S[i] = T[i]
    /\ \A p \in SeqRange(r.type_hole_positions) : S[p + 1] = T[p + 1]

ImplItems == {k \in 1..Len(returned.items) : returned.items[k].item = "impl"}

C2_OnlyRuleInstances ==
    Succeeded =>
        \A k \in ImplItems : \A S \in ConcreteArgs : \A T \in ConcreteArgs :
            impl_applies(returned.items[k], S, T) =>
                \E j \in 1..Len(RulesOfTrait(returned.items[k].trait)) :
                    InstanceOfRule(S, T, RulesOfTrait(returned.items[k].trait)[j])

\* a type-hole rule converts some source, and some other source has no
\* conversion at all
C2_Witness ==
    /\ Done /\ Succeeded
    /\ \E k \in ImplItems : \E S \in ConcreteArgs : \E T \in ConcreteArgs :
          /\ returned.items[k].generics # <<>>
          /\ impl_applies(returned.items[k], S, T)
    /\ \E S \in ConcreteArgs : \A k \in ImplItems : \A T \in ConcreteArgs :
          ~impl_applies(returned.items[k], S, T)

\* ------------------------------------------------------------------------
\* C3  Cartesian completeness: a fragment with one source pattern of N
\* whole-pattern alternatives and a target pattern of M whole-pattern
\* alternatives, none of which has a `|` inside its brackets, once expanded,
\* has given exactly N*M rules, the rule of the a-th source alternative and
\* the b-th target alternative at place (a-1)*M + b.
\* ------------------------------------------------------------------------
LastSpec == coercion_specs[idx - 1]

\* C3 as stated, for every pattern: the number of rules of an expanded
\* fragment is the number of top-level alternatives of its source pattern
\* times that of its target pattern.
C3_AsStated ==
    (HasExpanded /\ Len(LastSpec.from_patterns) = 1)
    => Len(expanded) = Len(WholeAlternatives(LastSpec.from_patterns[1]))
                       * Len(WholeAlternatives(LastSpec.to_pattern))

C3_CartesianCompleteness ==
    (/\ HasExpanded
     /\ Len(LastSpec.from_patterns) = 1
     /\ TopLevelOnly(LastSpec.from_patterns[1])
     /\ TopLevelOnly(LastSpec.to_pattern))
    => LET froms == WholeAlternatives(LastSpec.from_patterns[1])
           tos == WholeAlternatives(LastSpec.to_pattern)
           M == Len(tos)
       IN  /\ Len(expanded) = Len(froms) * M
           /\ \A a \in 1..Len(froms) : \A b \in 1..M :
                 /\ expanded[(a - 1) * M + b].from_alternative = froms[a]
                 /\ expanded[(a - 1) * M + b].to_alternative = tos[b]

\* 2 source alternatives against 3 target alternatives have given 6 rules
C3_Witness ==
    /\ HasExpanded
    /\ Len(LastSpec.from_patterns) = 1
    /\ Len(WholeAlternatives(LastSpec.from_patterns[1])) = 2
    /\ Len(WholeAlternatives(LastSpec.to_pattern)) = 3
    /\ TopLevelOnly(LastSpec.from_patterns[1]) /\ TopLevelOnly(LastSpec.to_pattern)
    /\ Len(expanded) = 6

\* ------------------------------------------------------------------------
\* C4  Parameter-level expansion: a fragment whose patterns have no `|`
\* outside the brackets, once expanded, has given one concrete pattern per
\* combination of the alternatives written in the slots (a slot without `|`
\* counts 1), on the source and on the target side; and
\* `T<X | Y, _>` against `T<Z, _>` gives exactly the rules
\* (T<X,_>, T<Z,_>) and (T<Y,_>, T<Z,_>), both with type-hole position 1.
\* ------------------------------------------------------------------------
ParameterLevel(s) == CutsAt(s, "|", 0) = {} /\ IsFlat(s)

\* the concrete pattern is one combination of the slot alternatives of s
IsCombinationOf(concrete, s) ==
    /\ IsFlat(concrete)
    /\ ~ContainsCh(concrete, "|")
    /\ Len(Slots(concrete)) = Len(Slots(s))
    /\ \A k \in 1..Len(Slots(s)) :
          Slots(concrete)[k] \in SeqRange(SlotAlternatives(Slots(s)[k]))

TypeHoleExample ==
    <<FromTo(Borrowed, T2(Or(Id("X"), Id("Y")), Hole), Borrowed, T2(Id("Z"), Hole))>>

C4_ParameterLevelExpansion ==
    /\ (/\ HasExpanded
        /\ Len(LastSpec.from_patterns) = 1
        /\ ParameterLevel(LastSpec.from_patterns[1])
        /\ ParameterLevel(LastSpec.to_pattern))
       => LET from == LastSpec.from_patterns[1]
              to == LastSpec.to_pattern
              fromAlts == {expanded[k].from_alternative : k \in 1..Len(expanded)}
              toAlts == {expanded[k].to_alternative : k \in 1..Len(expanded)}
          IN  /\ Len(expanded) = SlotProduct(from) * SlotProduct(to)
              /\ Cardinality(fromAlts) = SlotProduct(from)
              /\ Cardinality(toAlts) = SlotProduct(to)
              /\ \A c \in fromAlts : IsCombinationOf(c, from)
              /\ \A c \in toAlts : IsCombinationOf(c, to)
    /\ (Done /\ attrs = TypeHoleExample /\ Len(params) >= 2)
       => /\ Succeeded
          /\ Len(borrowed_coercions) = 2
          /\ owned_coercions = <<>> /\ cloned_coercions = <<>>
          /\ StripWs(borrowed_coercions[1].from_alternative) = <<"T", "<", "X", ",", "_", ">">>
          /\ StripWs(borrowed_coercions[2].from_alternative) = <<"T", "<", "Y", ",", "_", ">">>
          /\ \A k \in 1..2 :
                /\ StripWs(borrowed_coercions[k].to_alternative)
                       = <<"T", "<", "Z", ",", "_", ">">>
                /\ borrowed_coercions[k].type_hole_positions = <<1>>
                /\ PositionsOf(borrowed_coercions[k].to_alternative) = <<1>>

\* the example has been compiled on an entity with two parameters
C4_Witness ==
    /\ Done /\ Succeeded
    /\ attrs = TypeHoleExample
    /\ Len(params) = 2
    /\ Len(borrowed_coercions) = 2
    /\ borrowed_coercions[1].type_hole_positions = <<1>>

\* ------------------------------------------------------------------------
\* C5  Top-level and parameter-level alternation compose within one
\* pattern string: the source string `N<A | B, X | Y> | N<C, Z>` splits
\* into 5 concrete patterns, the target string
\* `N<M | N, P | Q> | N<O, R> | N<S | T, U | V>` into 9, and the fragment
\* compiles to 45 rules.
\* ------------------------------------------------------------------------
NestedExample == <<FromTo(Borrowed, NestedFrom, Borrowed, NestedTo)>>

C5_NestedComposition ==
    (Done /\ attrs = NestedExample /\ Len(params) = 2)
    => /\ Len(split_by_pipe_respecting_brackets(NestedFrom)) = 5
       /\ Len(split_by_pipe_respecting_brackets(NestedTo)) = 9
       /\ Succeeded
       /\ Len(borrowed_coercions) = 45

\* what the code does with the example: the top-level split returns the 2
\* and 3 segments with their `|` still inside, and the first of them is
\* not a type
C5_NestedRejected ==
    (Done /\ attrs = NestedExample)
    => /\ Len(split_by_pipe_respecting_brackets(NestedFrom)) = 2
       /\ Len(split_by_pipe_respecting_brackets(NestedTo)) = 3
       /\ Failed
       /\ returned.stage = "expand"
       /\ returned.err.kind = "SynParse"

\* ------------------------------------------------------------------------
\* C6  Non-identity of declared patterns: no accepted fragment has a source
\* pattern string equal, after trimming, to its target pattern string, so
\* a rule whose concrete source pattern equals its concrete target pattern
\* comes only from a fragment that writes `|` in one of its patterns.
\* ------------------------------------------------------------------------
IdentityRule(rule) == Trim(rule.from_alternative) = Trim(rule.to_alternative)

HasAlternation(spec) ==
    \/ ContainsCh(spec.to_pattern, "|")
    \/ \E k \in 1..Len(spec.from_patterns) : ContainsCh(spec.from_patterns[k], "|")

\* C6 as stated: no successful compilation emits a rule whose concrete
\* source pattern is identical, after trimming, to its concrete target
\* pattern, pairs that become identical by expansion included.
C6_AsStated ==
    Succeeded => \A k \in 1..Len(AllRules) : ~IdentityRule(AllRules[k])

C6_DeclaredNonIdentity ==
    /\ \A i \in 1..Len(coercion_specs) :
          \A k \in 1..Len(coercion_specs[i].from_patterns) :
             Trim(coercion_specs[i].from_patterns[k]) # Trim(coercion_specs[i].to_pattern)
    /\ HasExpanded =>
          \A k \in 1..Len(expanded) :
             IdentityRule(expanded[k]) => HasAlternation(LastSpec)

\* from `T<A, F>` to `T<S | A, F | G>` has compiled, and the rules hold the
\* identity pair (T<A, F>, T<A, F>)
C6_Witness ==
    /\ Done /\ Succeeded
    /\ \E i \in 1..Len(coercion_specs) :
          /\ coercion_specs[i].from_patterns = <<T2(Id("A"), Id("F"))>>
          /\ coercion_specs[i].to_pattern = T2(Or(Id("S"), Id("A")), Or(Id("F"), Id("G")))
    /\ \E k \in 1..Len(AllRules) : IdentityRule(AllRules[k])

\* ------------------------------------------------------------------------
\* C7  Identity rejection: a fragment whose source pattern string equals
\* its target pattern string after trimming fails validation, in each of
\* the three modes: compilation ends with an error of the attribute parser,
\* and for a fragment of one source key and one target key of the same
\* mode that error is the no-op error naming both strings.
\* ------------------------------------------------------------------------
IsNV(meta, keys) == meta.kind = "nv" /\ meta.key \in keys

\* attrs[i] carries a source value and a target value equal after trimming
IdentityFragment(i) ==
    /\ attrs[i].is_list
    /\ \E a, b \in 1..Len(attrs[i].metas) :
          /\ IsNV(attrs[i].metas[a], FromKeys)
          /\ IsNV(attrs[i].metas[b], ToKeys)
          /\ Trim(attrs[i].metas[a].value) = Trim(attrs[i].metas[b].value)

\* attrs[i] is exactly `<m>_from = f, <n>_to = t`, both values non-blank
PlainFragment(i, m, n) ==
    /\ attrs[i].is_list
    /\ Len(attrs[i].metas) = 2
    /\ IsNV(attrs[i].metas[1], FromKeys) /\ key_mode(attrs[i].metas[1].key) = m
    /\ IsNV(attrs[i].metas[2], ToKeys) /\ key_mode(attrs[i].metas[2].key) = n
    /\ Trim(attrs[i].metas[1].value) # <<>>
    /\ Trim(attrs[i].metas[2].value) # <<>>

C7_IdentityRejected ==
    /\ (Done /\ \E i \in 1..Len(attrs) : IdentityFragment(i))
       => /\ Failed
          /\ returned.stage = "parse"
          /\ returned.items = <<>>
    /\ \A m \in CoercionMode :
          (Done /\ data = "struct_named" /\ attrs # <<>>
                /\ PlainFragment(1, m, m) /\ IdentityFragment(1))
          => /\ Failed
             /\ returned.err.kind = "NoOp"
             /\ returned.err.from_pattern = attrs[1].metas[1].value
             /\ returned.err.to_pattern = attrs[1].metas[2].value

\* a cloned fragment whose two strings differ only in the blanks around
\* them has been rejected as a no-op
C7_Witness ==
    /\ Done /\ Failed
    /\ returned.err.kind = "NoOp"
    /\ attrs # <<>> /\ PlainFragment(1, Cloned, Cloned)
    /\ attrs[1].metas[1].value # attrs[1].metas[2].value

\* ------------------------------------------------------------------------
\* C8  Mode-mismatch rejection: when a fragment's source key and target
\* key name different modes, compilation fails in the attribute parser:
\* the expansion loop is never entered, no pattern is expanded and no rule
\* exists; the error of a fragment of one source key and one target key
\* names the two modes.
\* ------------------------------------------------------------------------
\* attrs[i] has source keys of one mode and a target key of another
MismatchedFragment(i) ==
    /\ attrs[i].is_list
    /\ \E m, n \in CoercionMode :
          /\ m # n
          /\ \E a \in 1..Len(attrs[i].metas) : IsNV(attrs[i].metas[a], FromKeys)
          /\ \E b \in 1..Len(attrs[i].metas) : IsNV(attrs[i].metas[b], ToKeys)
          /\ \A a \in 1..Len(attrs[i].metas) :
                /\ IsNV(attrs[i].metas[a], FromKeys) => key_mode(attrs[i].metas[a].key) = m
                /\ IsNV(attrs[i].metas[a], ToKeys) => key_mode(attrs[i].metas[a].key) = n

C8_ModeMismatchRejected ==
    /\ (data = "struct_named" /\ \E i \in 1..Len(attrs) : MismatchedFragment(i))
       => /\ pc \in {"start", "parse", "done"}
          /\ expanded = <<>>
          /\ AllRules = <<>>
          /\ Done => /\ Failed
                     /\ returned.stage = "parse"
                     /\ returned.items = <<>>
    /\ \A m, n \in CoercionMode :
          (Done /\ data = "struct_named" /\ attrs # <<>> /\ m # n /\ PlainFragment(1, m, n))
          => /\ returned.err.kind = "MismatchedModes"
             /\ returned.err.from_mode = m
             /\ returned.err.to_mode = n

\* an owned source key paired with a borrowed target key has been rejected
C8_Witness ==
    /\ Done /\ Failed
    /\ returned.err.kind = "MismatchedModes"
    /\ attrs # <<>> /\ PlainFragment(1, Owned, Borrowed)
    /\ expanded = <<>>

\* ------------------------------------------------------------------------
\* C9  Type-hole parity error: when a (source, target) pair of a fragment's
\* alternatives has different recorded type-hole positions, compilation
\* fails; the parity error carries both concrete patterns and both position
\* lists, which differ; `T<_, A>` against `T<B, _>` is rejected with
\* positions [0] against [1].
\* ------------------------------------------------------------------------
\* every concrete pattern the expansion of spec visits, per side
FromAlternatives(spec) ==
    Concat([k \in 1..Len(spec.from_patterns) |->
               split_by_pipe_respecting_brackets(spec.from_patterns[k])])
ToAlternatives(spec) == split_by_pipe_respecting_brackets(spec.to_pattern)
Alternatives(spec) == FromAlternatives(spec) \o ToAlternatives(spec)

Resolves(alt) == parse_target_with_type_holes(alt, params).ok

\* some pair of the fragment resolves to different position lists
ParityBroken(spec) ==
    \E a \in 1..Len(FromAlternatives(spec)) : \E b \in 1..Len(ToAlternatives(spec)) :
       LET f == FromAlternatives(spec)[a]
           t == ToAlternatives(spec)[b]
       IN  Resolves(f) /\ Resolves(t) /\ PositionsOf(f) # PositionsOf(t)

MismatchExample == <<FromTo(Borrowed, T2(Hole, Id("A")), Borrowed, T2(Id("B"), Hole))>>

HoleBeyondParams(alt) ==
    /\ IsFlat(alt)
    /\ has_type_hole(alt)
    /\ \E k \in 1..Len(Slots(alt)) : Slots(alt)[k] = <<"_">> /\ k - 1 >= Len(params)

HasAsrefMarker(i) ==
    \E a \in 1..Len(attrs[i].metas) :
       attrs[i].metas[a].kind = "path" /\ attrs[i].metas[a].key = "asref"

\* the modes named by the source and target keys of attrs[i]
KeyModes(i) ==
    {key_mode(attrs[i].metas[a].key) :
        a \in {b \in 1..Len(attrs[i].metas) : IsNV(attrs[i].metas[b], FromKeys \cup ToKeys)}}

\* attrs[i] is exactly `<m>_from = f, <m>_to = t, asref`, f and t non-blank
\* and different
PlainAsrefFragment(i, m) ==
    /\ attrs[i].is_list
    /\ Len(attrs[i].metas) = 3
    /\ IsNV(attrs[i].metas[1], FromKeys) /\ key_mode(attrs[i].metas[1].key) = m
    /\ IsNV(attrs[i].metas[2], ToKeys) /\ key_mode(attrs[i].metas[2].key) = m
    /\ attrs[i].metas[3].kind = "path" /\ attrs[i].metas[3].key = "asref"
    /\ Trim(attrs[i].metas[1].value) # <<>>
    /\ Trim(attrs[i].metas[2].value) # <<>>
    /\ Trim(attrs[i].metas[1].value) # Trim(attrs[i].metas[2].value)

C11_AsrefOnlyBorrowed ==
    /\ \A i \in 1..Len(coercion_specs) :
          coercion_specs[i].generate_asref => coercion_specs[i].kind = Borrowed
    /\ (Done /\ data = "struct_named"
             /\ \E i \in 1..Len(attrs) :
                   /\ attrs[i].is_list /\ HasAsrefMarker(i)
                   /\ KeyModes(i) # {} /\ Borrowed \notin KeyModes(i))
       => Failed /\ returned.stage = "parse" /\ returned.items = <<>>
    /\ \A m \in {Owned, Cloned} :
          (Done /\ data = "struct_named" /\ attrs # <<>> /\ PlainAsrefFragment(1, m))
          => Failed /\ returned.err.kind = "AsRefNotBorrowed"
    /\ (Done /\ data = "struct_named" /\ Len(attrs) = 1 /\ PlainAsrefFragment(1, Borrowed))
       => /\ Len(coercion_specs) = 1
          /\ coercion_specs[1].generate_asref
          /\ returned.stage # "parse"

\* `cloned_from, cloned_to, asref` has been rejected for its marker
C11_Witness ==
    /\ Done /\ Failed
    /\ returned.err.kind = "AsRefNotBorrowed"
    /\ attrs # <<>> /\ PlainAsrefFragment(1, Cloned)

\* ------------------------------------------------------------------------
\* C12  An AsRef impl is emitted for a borrowed rule exactly when the
\* fragment that produced the rule carried the `asref` marker: after a
\* successful compilation the marked rule indices are those of the rules
\* of marked fragments, and the AsRef impls emitted are the ones of those
\* rules.
\* ------------------------------------------------------------------------
\* for every borrowed rule, in the order of borrowed_coercions, whether its
\* fragment asked for AsRef
RECURSIVE AsrefRequested(_)
AsrefRequested(specs) ==
    IF specs = <<>> THEN <<>>
    ELSE (IF Head(specs).kind = Borrowed
          THEN [k \in 1..Len(expand_coercion_spec(Head(specs), params).rules) |->
                   Head(specs).generate_asref]
          ELSE <<>>)
         \o AsrefRequested(Tail(specs))

AsrefItems == SelectSeq(returned.items, LAMBDA it : it.item = "impl" /\ it.trait = "AsRef")

C12_AsrefExactlyWhenRequested ==
    (Done /\ Succeeded)
    => LET requested == AsrefRequested(coercion_specs)
           wanted == SelectSeq([k \in 1..Len(borrowed_coercions) |-> k],
                               LAMBDA k : requested[k])
       IN  /\ Len(requested) = Len(borrowed_coercions)
           /\ \A k \in 1..Len(borrowed_coercions) :
                 SeqContains(generate_asref_for, k - 1) <=> requested[k]
           /\ AsrefItems = [j \in 1..Len(wanted) |->
                               asref_item(params, borrowed_coercions[wanted[j]])]

\* what the code does: a marked fragment marks every borrowed rule
\* collected so far, the rules of earlier fragments included
C12_EarlierRulesMarked ==
    (Done /\ Succeeded)
    => LET requested == AsrefRequested(coercion_specs)
       IN  \A k \in 1..Len(borrowed_coercions) :
              SeqContains(generate_asref_for, k - 1)
              <=> \E j \in k..Len(borrowed_coercions) : requested[j]

\* ------------------------------------------------------------------------
\* C13  `cloned_from = "T<A|B|C, D>"`, `cloned_to = "T<G, D>"` compiles to
\* exactly 3 cloned rules, and the method emitted for every cloned rule
\* clones self first and transmutes the clone, never self.
\* ------------------------------------------------------------------------
ClonedExample == <<FromTo(Cloned, ClonedFrom, Cloned, ClonedTo)>>

ImplsOf(trait) == SelectSeq(returned.items, LAMBDA it : it.item = "impl" /\ it.trait = trait)

C13_CloneThenTransmute ==
    /\ (Done /\ attrs = ClonedExample)
       => /\ Succeeded
          /\ Len(cloned_coercions) = 3
          /\ borrowed_coercions = <<>> /\ owned_coercions = <<>>
          /\ [k \in 1..3 |-> cloned_coercions[k].source_type]
                = <<StripWs(T2(Id("A"), Id("D"))), StripWs(T2(Id("B"), Id("D"))),
                    StripWs(T2(Id("C"), Id("D")))>>
          /\ \A k \in 1..3 :
                /\ cloned_coercions[k].target_type = StripWs(ClonedTo)
                /\ cloned_coercions[k].type_hole_positions = <<>>
    /\ (Done /\ Succeeded)
       => /\ Len(ImplsOf("CoerceCloned")) = Len(cloned_coercions)
          /\ \A k \in 1..Len(cloned_coercions) :
                LET it == ImplsOf("CoerceCloned")[k]
                IN  /\ it.source_type = cloned_coercions[k].source_type
                    /\ it.target_type = cloned_coercions[k].target_type
                    /\ it.takes = "&self"
                    /\ it.body = <<"self.clone()", "transmute(clone)">>
                    /\ ~SeqContains(it.body, "transmute(self)")

\* the scenario has compiled to three CoerceCloned impls
C13_Witness ==
    /\ Done /\ Succeeded
    /\ attrs = ClonedExample
    /\ Len(ImplsOf("CoerceCloned")) = 3

\* ------------------------------------------------------------------------
\* C14: a to_coerced call leaves every value the program holds, the one it
\* is called on included, as it was: still live, same type, same fields;
\* the call only adds its result. So after any number of calls the original
\* is usable and unchanged.
\* ------------------------------------------------------------------------
SameValues == \A i \in 1..Len(values) : values'[i] = values[i]

C14_ClonedLeavesSource ==
    [][CallToCoerced
         => /\ Len(values') = Len(values) + 1
            /\ SameValues
            /\ refs' = refs]_vars

\* tests/complex_cloned.rs: two to_coerced calls on one value, to different
\* targets, and the original is live at its own type
C14_Witness ==
    /\ Len(values) = 3
    /\ values[1].state = "live"
    /\ values[2].ty # values[3].ty
    /\ values[2].ty # values[1].ty /\ values[3].ty # values[1].ty
    /\ \A i \in 2..3 : Implements("CoerceCloned", values[1].ty, values[i].ty)
    /\ \A i \in 2..3 : values[i].fields = values[1].fields
    /\ owned_coercions = <<>>

\* ------------------------------------------------------------------------
\* C15: a coerce call changes no value and consumes none, however often it
\* is made: the value a live reference points to is live, an owned
\* conversion that is implemented for that value can still be called, and
\* the conversion that ended a reference carried the same fields over.
\* ------------------------------------------------------------------------
OwnedImplemented(i) == \E T \in RunTypes : Implements("CoerceOwned", values[i].ty, T)

ViewsKeepValue ==
    \A j \in 1..Len(refs) :
       LET i == refs[j].of
       IN  /\ refs[j].state = "live"
              => /\ values[i].state = "live"
                 /\ (OwnedImplemented(i) /\ Len(values) < MaxValues)
                       => ENABLED CallIntoCoerced
           /\ refs[j].state = "ended"
              => /\ values[i].state = "moved"
                 /\ \E k \in (i + 1)..Len(values) :
                       /\ values[k].fields = values[i].fields
                       /\ Implements("CoerceOwned", values[i].ty, values[k].ty)

C15_BorrowedIsView ==
    /\ [][CallCoerce => values' = values /\ SubSeq(refs', 1, Len(refs)) = refs]_vars
    /\ []ViewsKeepValue

\* tests/owned.rs, borrowed_vs_owned: coerce twice, then into_coerced
C15_Witness ==
    /\ Len(refs) = 2
    /\ \A j \in 1..2 : refs[j].of = 1 /\ refs[j].state = "ended"
    /\ Len(values) = 2
    /\ values[1].state = "moved"
    /\ values[2].state = "live"
    /\ values[2].fields = values[1].fields
    /\ values[2].ty # values[1].ty

\* ------------------------------------------------------------------------
\* C16: every conversion changes type arguments only. Each value the
\* program holds, whatever chain of into_coerced and to_coerced calls made
\* it, has the fields of the value constructed first, and each step of
\* every method keeps the fields of the values it is given and gives its
\* result the fields of its receiver.
\* ------------------------------------------------------------------------
FieldsOf(vs) == [i \in 1..Len(vs) |-> vs[i].fields]

Converts == CallCoerce \/ CallAsRef \/ CallIntoCoerced \/ CallToCoerced

C16_OnlyPhantomChanges ==
    /\ [](\A i \in 1..Len(values) : values[i].fields = values[1].fields)
    /\ [][Converts => SubSeq(FieldsOf(values'), 1, Len(values)) = FieldsOf(values)]_vars
    /\ [](\A j \in 1..Len(refs) : refs[j].of \in 1..Len(values))

\* tests/multi_owned.rs: owned <Z, Z> to <X, Y> to <Y, X>, the fields of
\* the last value are those of the first
C16_Witness ==
    /\ Len(values) = 3
    /\ values[1].ty = <<"Z", "Z">> /\ values[1].state = "moved"
    /\ values[2].ty = <<"X", "Y">> /\ values[2].state = "moved"
    /\ values[3].ty = <<"Y", "X">> /\ values[3].state = "live"
    /\ values[3].fields = values[1].fields
    /\ values[3].fields \in FieldData

\* ------------------------------------------------------------------------
\* C17: `borrowed_from = "Path<Absolute|Relative, File>"`,
\* `borrowed_to = "Path<Generic, File>"` on an entity with two generic
\* parameters compiles to exactly 2 borrowed rules, Path<Absolute, File>
\* and Path<Relative, File> to Path<Generic, File>. As stated, both rules
\* record the position set {1}; in the code neither pattern holds a `_`, so
\* both record the empty set.
\* ------------------------------------------------------------------------
PathExample == <<FromTo(Borrowed, PathFrom, Borrowed, PathTo)>>

PathCompiled == Done /\ attrs = PathExample /\ Len(params) = 2

PathTwoRules ==
    /\ Succeeded
    /\ Len(borrowed_coercions) = 2
    /\ owned_coercions = <<>> /\ cloned_coercions = <<>>
    /\ borrowed_coercions[1].source_type = StripWs(T2(Id("A"), Id("F")))
    /\ borrowed_coercions[2].source_type = StripWs(T2(Id("R"), Id("F")))
    /\ \A k \in 1..2 : borrowed_coercions[k].target_type = StripWs(PathTo)

C17_AsStated ==
    PathCompiled
       => /\ PathTwoRules
          /\ \A k \in 1..2 : borrowed_coercions[k].type_hole_positions = <<1>>

C17_PathScenario ==
    PathCompiled
       => /\ PathTwoRules
          /\ \A k \in 1..2 :
                /\ borrowed_coercions[k].type_hole_positions = <<>>
                /\ PositionsOf(borrowed_coercions[k].from_alternative) = <<>>
                /\ PositionsOf(borrowed_coercions[k].to_alternative) = <<>>

\* the scenario has compiled on an entity with two parameters
C17_Witness ==
    /\ PathCompiled /\ Succeeded
    /\ Len(borrowed_coercions) = 2
    /\ Len(ImplsOf("CoerceRef")) = 2

\* ------------------------------------------------------------------------
\* C18: the type-hole positions recorded for a concrete pattern are exactly
\* the positions (counted from 0) of the parameter segments that trim to
\* `_`, however the pattern is spaced; a segment that is a name is never
\* recorded. Stated of both patterns of every rule expand_coercion_spec
\* has emitted.
\* ------------------------------------------------------------------------
HoleSegments(pattern) ==
    IF ~IsFlat(pattern) THEN {}
    ELSE {k - 1 : k \in {j \in 1..Len(Slots(pattern)) : Slots(pattern)[j] = <<"_">>}}

RecordsItsHoles(r) ==
    /\ SeqRange(r.type_hole_positions) = HoleSegments(r.from_alternative)
    /\ SeqRange(r.type_hole_positions) = HoleSegments(r.to_alternative)

C18_PositionsAreHoleSegments ==
    /\ \A k \in 1..Len(AllRules) : RecordsItsHoles(AllRules[k])
    /\ \A k \in 1..Len(expanded) : RecordsItsHoles(expanded[k])

\* ------------------------------------------------------------------------
\* C19: a fragment that carries a target key more than once, in whatever
\* modes, is rejected: the derive fails in parse_coerce_attr and emits
\* nothing, with the duplicate-target error named after the second target
\* key when nothing before it is at fault. Every fragment that has been
\* accepted carries exactly one target key, whose value is the target
\* pattern of its spec.
\* ------------------------------------------------------------------------
ToMetas(a) == {k \in 1..Len(a.metas) : IsNV(a.metas[k], ToKeys)}
FromMetas(a) == {k \in 1..Len(a.metas) : IsNV(a.metas[k], FromKeys)}

\* the attributes the loop of lines 174-180 has gone through without Err
ParsedCount ==
    IF pc = "start" \/ (Done /\ returned.stage = "input") THEN 0
    ELSE IF pc = "parse" \/ (Done /\ returned.stage = "parse") THEN idx - 1
    ELSE Len(attrs)

\* the spec pushed for attrs[i], a list attribute that has been accepted
SpecOf(i) == coercion_specs[Cardinality({j \in 1..i : attrs[j].is_list})]

\* the second target key of a, and nothing in front of it is rejected
SecondTo(a) == CHOOSE k \in ToMetas(a) : Cardinality({j \in ToMetas(a) : j < k}) = 1
CleanBefore(a, k) ==
    \A j \in 1..(k - 1) :
       \/ a.metas[j].kind = "path" /\ a.metas[j].key = "asref"
       \/ IsNV(a.metas[j], FromKeys \cup ToKeys) /\ Trim(a.metas[j].value) # <<>>

C19_DuplicateTargetRejected ==
    /\ (Done /\ \E i \in 1..Len(attrs) : Cardinality(ToMetas(attrs[i])) >= 2)
       => /\ Failed
          /\ returned.stage = "parse"
          /\ returned.items = <<>>
    /\ (/\ Done /\ data = "struct_named" /\ attrs # <<>>
        /\ Cardinality(ToMetas(attrs[1])) >= 2
        /\ CleanBefore(attrs[1], SecondTo(attrs[1])))
       => /\ returned.err.kind = "DuplicateTo"
          /\ returned.err.key = attrs[1].metas[SecondTo(attrs[1])].key
    /\ \A i \in 1..ParsedCount :
          attrs[i].is_list
          => /\ Cardinality(ToMetas(attrs[i])) = 1
             /\ \A k \in ToMetas(attrs[i]) : SpecOf(i).to_pattern = attrs[i].metas[k].value

\* a fragment with a borrowed_to and an owned_to has been rejected as a
\* duplicate target
C19_Witness ==
    /\ Done /\ Failed
    /\ Len(attrs) = 1
    /\ {attrs[1].metas[k].key : k \in ToMetas(attrs[1])} = {"borrowed_to", "owned_to"}
    /\ returned.err = [kind |-> "DuplicateTo", key |-> "owned_to"]

\* ------------------------------------------------------------------------
\* C20: a #[coerce(...)] fragment without a source key, without a target
\* key, or with a source or target value that is empty or blank is
\* rejected: the derive fails in parse_coerce_attr and emits nothing. Every
\* fragment that has been accepted has at least one source pattern, all of
\* its source patterns and its target pattern non-blank, and they are the
\* values of its keys in the order written.
\* ------------------------------------------------------------------------
BlankMetas(a) ==
    {k \in FromMetas(a) \cup ToMetas(a) : \A c \in SeqRange(a.metas[k].value) : IsWs(c)}

Lacking(a) ==
    /\ a.is_list
    /\ (FromMetas(a) = {} \/ ToMetas(a) = {} \/ BlankMetas(a) # {})

FirstBlank(a) == CHOOSE k \in BlankMetas(a) : \A j \in BlankMetas(a) : k <= j

\* the values of a's source keys, in the order written
RECURSIVE FromValues(_, _)
FromValues(a, k) ==
    IF k > Len(a.metas) THEN <<>>
    ELSE (IF k \in FromMetas(a) THEN <<a.metas[k].value>> ELSE <<>>) \o FromValues(a, k + 1)

\* every meta of a is a source or target key with a non-blank value
AllKeysFilled(a) ==
    /\ a.is_list /\ a.metas # <<>>
    /\ \A k \in 1..Len(a.metas) : k \in FromMetas(a) \cup ToMetas(a)
    /\ BlankMetas(a) = {}

C20_NonEmptiness ==
    /\ (Done /\ \E i \in 1..Len(attrs) : Lacking(attrs[i]))
       => /\ Failed
          /\ returned.stage = "parse"
          /\ returned.items = <<>>
    /\ (Done /\ data = "struct_named" /\ attrs # <<>>)
       => LET a == attrs[1]
          IN  /\ (AllKeysFilled(a) /\ FromMetas(a) = {} /\ Cardinality(ToMetas(a)) = 1)
                    => returned.err.kind = "MissingSource"
              /\ (AllKeysFilled(a) /\ ToMetas(a) = {})
                    => returned.err.kind = "MissingTarget"
              /\ (a.is_list /\ BlankMetas(a) # {} /\ CleanBefore(a, FirstBlank(a))
                    /\ ~(FirstBlank(a) \in ToMetas(a) /\ \E j \in ToMetas(a) : j < FirstBlank(a)))
                    => returned.err = [kind |-> "EmptyPattern",
                                       key |-> a.metas[FirstBlank(a)].key]
    /\ \A i \in 1..ParsedCount :
          attrs[i].is_list
          => /\ SpecOf(i).from_patterns # <<>>
             /\ SpecOf(i).from_patterns = FromValues(attrs[i], 1)
             /\ \A k \in 1..Len(SpecOf(i).from_patterns) :
                   \E c \in SeqRange(SpecOf(i).from_patterns[k]) : ~IsWs(c)
             /\ \E c \in SeqRange(SpecOf(i).to_pattern) : ~IsWs(c)
             /\ ~Lacking(attrs[i])

\* a fragment whose source value is one blank has been rejected as empty
C20_Witness ==
    /\ Done /\ Failed
    /\ Len(attrs) = 1
    /\ BlankMetas(attrs[1]) # {}
    /\ attrs[1].metas[FirstBlank(attrs[1])].value = <<" ">>
    /\ FirstBlank(attrs[1]) \in FromMetas(attrs[1])
    /\ returned.err = [kind |-> "EmptyPattern", key |-> "cloned_from"]

\* ------------------------------------------------------------------------
\* C21: a struct without a #[coerce(...)] declaration is rejected with the
\* "requires at least one #[coerce(...)] attribute" error and emits
\* nothing; every expansion that returns Ok holds at least one rule, and a
\* derive that has succeeded holds at least one rule over the three modes
\* and has emitted an impl for each.
\* ------------------------------------------------------------------------
NoDeclaration == \A i \in 1..Len(attrs) : ~attrs[i].is_list

C21_AtLeastOneRule ==
    /\ (Done /\ data = "struct_named" /\ NoDeclaration)
       => /\ Failed
          /\ returned.err = [kind |-> "NoCoerceAttribute"]
          /\ returned.items = <<>>
    /\ HasExpanded => Len(expanded) >= 1
    /\ (Done /\ Succeeded)
       => /\ ~NoDeclaration
          /\ Len(AllRules) >= 1
          /\ Len(AllRules) >= Len(coercion_specs)
          /\ Len(ImplsOf("CoerceRef")) + Len(ImplsOf("CoerceOwned"))
                + Len(ImplsOf("CoerceCloned")) = Len(AllRules)

\* tests/ui/no_coerce_attrs.rs: a struct without attributes has been rejected
C21_Witness ==
    /\ Done /\ Failed
    /\ attrs = <<>>
    /\ data = "struct_named"
    /\ returned.err = [kind |-> "NoCoerceAttribute"]

\* ------------------------------------------------------------------------
\* C22: a derive that fails, in the attribute loop, in the expansion loop
\* (type-hole resolution and the position check included) or in one of the
\* generation blocks, returns the error alone: no item is emitted, whatever
\* the fragments before the failing one have contributed. Items are
\* returned only by a derive that has succeeded, and then all of them.
\* ------------------------------------------------------------------------
C22_NoPartialOutput ==
    /\ Failed => Done /\ returned.items = <<>> /\ returned.err # NoErr
    /\ ~Done => returned = Pending
    /\ Succeeded => Done /\ returned.items = output /\ returned.err = NoErr
    /\ (Done /\ returned.stage \in {"input", "parse", "expand"}) => output = <<>>

\* the borrowed block of an earlier fragment had been generated when the
\* cloned block failed
C22_Witness ==
    /\ Done /\ Failed
    /\ returned.stage = "emit"
    /\ Len(attrs) = 2
    /\ Len(borrowed_coercions) >= 1
    /\ output # <<>>
    /\ returned.items = <<>>

\* ------------------------------------------------------------------------
\* C23: a fragment that names its coercion with the one collapsed key
\* `borrowed = "Target"`, `owned = "Target"` or `cloned = "Target"` is
\* accepted and yields a rule of that mode.
\* ------------------------------------------------------------------------
CollapsedKey(mode) ==
    IF mode = Borrowed THEN "borrowed" ELSE IF mode = Owned THEN "owned" ELSE "cloned"

RulesOfMode(mode) ==
    IF mode = Borrowed THEN borrowed_coercions
    ELSE IF mode = Owned THEN owned_coercions ELSE cloned_coercions

C23_CollapsedKeyAccepted ==
    \A mode \in CoercionMode :
       (/\ Done /\ data = "struct_named" /\ params # <<>>
        /\ attrs = <<Attr(<<NV(CollapsedKey(mode), T1(Id("B")))>>)>>)
       => /\ Succeeded
          /\ Len(RulesOfMode(mode)) >= 1
          /\ \A k \in 1..Len(RulesOfMode(mode)) :
                RulesOfMode(mode)[k].target_type = StripWs(T1(Id("B")))

\* ------------------------------------------------------------------------
\* impl_coerce as a function of its input: the same three loops run from
\* the start to the end in one evaluation
\* ------------------------------------------------------------------------
RECURSIVE parse_attrs(_, _, _)
parse_attrs(as, k, specs) ==
    IF k > Len(as) THEN [ok |-> TRUE, specs |-> specs, err |-> NoErr]
    ELSE LET r == parse_coerce_attr(as[k])
         IN  IF ~r.ok THEN [ok |-> FALSE, specs |-> <<>>, err |-> r.err]
             ELSE parse_attrs(as, k + 1, IF r.some THEN Append(specs, r.spec) ELSE specs)

RECURSIVE expand_specs(_, _, _, _)
expand_specs(specs, ps, k, acc) ==
    IF k > Len(specs) THEN acc
    ELSE LET spec == specs[k]
             r == expand_coercion_spec(spec, ps)
         IN  IF ~r.ok THEN [acc EXCEPT !.ok = FALSE, !.err = r.err]
             ELSE expand_specs(specs, ps, k + 1,
                    IF spec.kind = Borrowed
                    THEN [acc EXCEPT
                            !.borrowed = extend(@, r.rules),
                            !.asref_for =
                                IF spec.generate_asref
                                THEN @ \o Range0(Len(acc.borrowed) + Len(r.rules))
                                ELSE @]
                    ELSE IF spec.kind = Owned
                    THEN [acc EXCEPT !.owned = extend(@, r.rules)]
                    ELSE [acc EXCEPT !.cloned = extend(@, r.rules)])

\* the three generation blocks, in order; the first failing generate_*_impl
\* call ends the function
generate_blocks(ps, e) ==
    IF first_failing(e.borrowed) # 0
    THEN [ok |-> FALSE, items |-> <<>>,
          err |-> target_guard(e.borrowed[first_failing(e.borrowed)].target_type)]
    ELSE IF first_failing(e.owned) # 0
    THEN [ok |-> FALSE, items |-> <<>>,
          err |-> target_guard(e.owned[first_failing(e.owned)].target_type)]
    ELSE IF first_failing(e.cloned) # 0
    THEN [ok |-> FALSE, items |-> <<>>,
          err |-> target_guard(e.cloned[first_failing(e.cloned)].target_type)]
    ELSE [ok |-> TRUE, err |-> NoErr,
          items |-> mode_block(Borrowed, ps, e.borrowed, e.asref_for)
                    \o mode_block(Owned, ps, e.owned, <<>>)
                    \o mode_block(Cloned, ps, e.cloned, <<>>)]

NoRules ==
    [ok |-> TRUE, err |-> NoErr, borrowed |-> <<>>, owned |-> <<>>, cloned |-> <<>>,
     asref_for |-> <<>>]

impl_coerce(d, ps, as) ==
    IF d = "enum" THEN [returned |-> ReturnErr([kind |-> "NotAStruct"], "input"), rules |-> NoRules]
    ELSE IF d = "struct_unnamed"
    THEN [returned |-> ReturnErr([kind |-> "NoNamedFields"], "input"), rules |-> NoRules]
    ELSE LET p == parse_attrs(as, 1, <<>>)
         IN  IF ~p.ok THEN [returned |-> ReturnErr(p.err, "parse"), rules |-> NoRules]
             ELSE IF no_specs(p.specs)
             THEN [returned |-> ReturnErr([kind |-> "NoCoerceAttribute"], "parse"),
                   rules |-> NoRules]
             ELSE LET e == expand_specs(p.specs, ps, 1, NoRules)
                  IN  IF ~e.ok THEN [returned |-> ReturnErr(e.err, "expand"), rules |-> e]
                      ELSE LET g == generate_blocks(ps, e)
                           IN  [returned |-> IF g.ok THEN ReturnOk(g.items)
                                             ELSE ReturnErr(g.err, "emit"),
                                rules |-> e]

\* ------------------------------------------------------------------------
\* C24: the outcome of the derive is a function of the entity and its
\* declarations: a run that has ended has returned what another run of
\* impl_coerce on the same input returns, the same error or the same items,
\* and on success its borrowed, owned and cloned rules and its AsRef marks
\* are the same sequences in the same order.
\* ------------------------------------------------------------------------
SecondRun == impl_coerce(data, params, attrs)

OrderedPairs(spec) ==
    Concat([a \in 1..Len(FromAlternatives(spec)) |->
               [t \in 1..Len(ToAlternatives(spec)) |->
                   <<FromAlternatives(spec)[a], ToAlternatives(spec)[t]>>]])

\* the specs the expansion loop has gone through without Err
ExpandedCount ==
    IF pc \in {"start", "parse"} \/ (Done /\ returned.stage \in {"input", "parse"}) THEN 0
    ELSE IF pc = "expand" \/ (Done /\ returned.stage = "expand") THEN idx - 1
    ELSE Len(coercion_specs)

ExpectedPairs(mode) ==
    Concat([k \in 1..ExpandedCount |->
               IF coercion_specs[k].kind = mode THEN OrderedPairs(coercion_specs[k])
               ELSE <<>>])

PairsOf(rules) == [k \in 1..Len(rules) |-> <<rules[k].from_alternative, rules[k].to_alternative>>]

C25_RulesInDeclarationOrder ==
    /\ \A mode \in CoercionMode : PairsOf(RulesOfMode(mode)) = ExpectedPairs(mode)
    /\ HasExpanded => PairsOf(expanded) = OrderedPairs(coercion_specs[idx - 1])
    /\ (Done /\ Succeeded)
       => \A mode \in CoercionMode :
             [k \in 1..Len(ImplsOf(TraitOf(mode))) |->
                 <<ImplsOf(TraitOf(mode))[k].source_type, ImplsOf(TraitOf(mode))[k].target_type>>]
             = [k \in 1..Len(RulesOfMode(mode)) |->
                 <<RulesOfMode(mode)[k].source_type, RulesOfMode(mode)[k].target_type>>]

\* two fragments have declared the same pair and both rules are emitted
C25_Witness ==
    /\ Done /\ Succeeded
    /\ Len(attrs) = 2
    /\ attrs[1] = attrs[2]
    /\ Len(borrowed_coercions) = 2
    /\ borrowed_coercions[1] = borrowed_coercions[2]
    /\ Len(ImplsOf("CoerceRef")) = 2

\* ------------------------------------------------------------------------
\* C26: a pattern string is split at the `|` of bracket depth 0 first. Two
\* or more segments are the alternatives as they stand, a `|` inside their
\* brackets is left alone; the parameter-level expansion is what the split
\* returns exactly when the depth-0 split gave no more than one segment and
\* the string holds a `|`; a string without `|` gives itself alone (the
\* blanks around it dropped). Stated of every pattern of every accepted
\* fragment.
\* ------------------------------------------------------------------------
SpecPatterns ==
    UNION {SeqRange(coercion_specs[k].from_patterns) \cup {coercion_specs[k].to_pattern} :
              k \in 1..Len(coercion_specs)}

\* the non-blank pieces between the `|` of depth 0
TopPieces(s) == SelectSeq(PiecesAt(s, "|", 0), LAMBDA piece : piece # <<>>)

HasPrecedence(s) ==
    LET alternatives == split_by_pipe_respecting_brackets(s)
    IN  /\ ~ContainsCh(s, "|") => alternatives = <<Trim(s)>>
        /\ Len(TopPieces(s)) >= 2 => alternatives = TopPieces(s)
        /\ (Len(TopPieces(s)) <= 1 /\ ContainsCh(s, "|"))
              => alternatives = expand_type_parameter_alternatives(s)
        /\ alternatives # expand_type_parameter_alternatives(s)
              => (Len(TopPieces(s)) >= 2 \/ ~ContainsCh(s, "|"))

Balanced(s) ==
    /\ \A k \in 1..(Len(s) + 1) : DepthBefore(s, k) >= 0
    /\ DepthBefore(s, Len(s) + 1) = 0

\* the parameter slots between the first `<` and the last `>`
OuterSlots(s) ==
    PiecesAt(SubSeq(s, FindCh(s, "<") + 1, RFindCh(s, ">") - 1), ",", 0)

ParameterLevelInput(s) ==
    /\ ContainsCh(s, "|")
    /\ Len(TopPieces(s)) = 1
    /\ Balanced(s)
    /\ FindCh(s, "<") # 0
    /\ Trim(s)[Len(Trim(s))] = ">"

C27_TopLevelCommasOnly ==
    \A s \in SpecPatterns :
       ParameterLevelInput(s)
       => \A k \in 1..Len(split_by_pipe_respecting_brackets(s)) :
             LET alternative == split_by_pipe_respecting_brackets(s)[k]
             IN  /\ Balanced(alternative)
                 /\ Len(OuterSlots(alternative)) = Len(OuterSlots(s))

\* ------------------------------------------------------------------------
\* C28: for a pattern whose type holes are all in range the resolver
\* returns the pattern with each `_` slot at position p replaced by the
\* p-th generic type parameter of the struct and every other slot as
\* written, together with the hole positions in increasing order. Stated
\* of the source and the target pattern of every rule expand_coercion_spec
\* has emitted.
\* ------------------------------------------------------------------------
RECURSIVE JoinSlots(_)
JoinSlots(slots) ==
    IF slots = <<>> THEN <<>>
    ELSE IF Len(slots) = 1 THEN slots[1]
    ELSE slots[1] \o <<",">> \o JoinSlots(Tail(slots))

\* the pattern with its `_` slots replaced by the parameters, blanks dropped
WithParameters(pattern) ==
    IF ~IsFlat(pattern) THEN StripWs(pattern)
    ELSE LET t == Trim(pattern)
             slots == Slots(pattern)
         IN  StripWs(SubSeq(t, 1, FindCh(t, "<"))
                     \o JoinSlots([k \in 1..Len(slots) |->
                                      IF slots[k] = <<"_">> THEN params[k] ELSE slots[k]])
                     \o <<">">>)

RECURSIVE Increasing(_)
Increasing(S) ==
    IF S = {} THEN <<>>
    ELSE LET least == CHOOSE x \in S : \A y \in S : x <= y
         IN  <<least>> \o Increasing(S \ {least})

HolesInRange(pattern) == \A p \in HoleSegments(pattern) : p < Len(params)

C28_HolesResolved ==
    \A k \in 1..Len(AllRules) :
       LET r == AllRules[k]
       IN  (HolesInRange(r.from_alternative) /\ HolesInRange(r.to_alternative))
           => /\ r.source_type = WithParameters(r.from_alternative)
              /\ r.target_type = WithParameters(r.to_alternative)
              /\ r.type_hole_positions = Increasing(HoleSegments(r.from_alternative))

\* ------------------------------------------------------------------------
\* C29: no pattern that split_by_pipe_respecting_brackets returns, and
\* that expand_coercion_spec then hands to parse_target_with_type_holes,
\* holds a `|`, whatever the pattern string of the fragment: a `|` in front
\* or at the end, or `|` at depth 0 and inside brackets at once.
\* ------------------------------------------------------------------------
C29_AlternativesFreeOfPipe ==
    \A s \in SpecPatterns :
       \A k \in 1..Len(split_by_pipe_respecting_brackets(s)) :
          ~ContainsCh(split_by_pipe_respecting_brackets(s)[k], "|")

\* ------------------------------------------------------------------------
\* C30: every fragment that has been accepted names one mode: each of its
\* source keys and its target key are keys of the mode of its spec. A
\* fragment with source keys of two modes is rejected, so no rule of one
\* mode comes from a key of another.
\* ------------------------------------------------------------------------
ModesNamed(a) ==
    {key_mode(a.metas[k].key) : k \in FromMetas(a) \cup ToMetas(a)}

C30_SingleMode ==
    /\ \A i \in 1..ParsedCount :
          attrs[i].is_list => ModesNamed(attrs[i]) = {SpecOf(i).kind}
    /\ (Done /\ \E i \in 1..Len(attrs) : Cardinality(ModesNamed(attrs[i])) >= 2)
       => Failed /\ returned.stage = "parse"

====
